---- MODULE Spec2Model ----
(***************************************************************************)
(* Dynamic specification-label engine of the equipment manager:            *)
(* the label fetcher with its collision handling, the label applier, the   *)
(* mixed-type reconciler and the search paths that call them               *)
(* (src/search_equipment.py).                                              *)
(*                                                                         *)
(* Text is a sequence of one-character strings, so that trimming, case     *)
(* folding, prefix tests, substring matches and the " (n)" suffixes are    *)
(* computed the way the code computes them.  A table (DataFrame) is a      *)
(* record [cols, rows]: the column names in order and, per row, the cell   *)
(* values in the same order, so that two columns may carry the same name.  *)
(***************************************************************************)
EXTENDS Integers, Sequences, FiniteSets, TLC

\* ---------------------------------------------------------------- bounds
\* Slot ordinals modelled (the code walks range(1, 51)).
MaxSlot == 3
\* Rows in the equipment table.
MaxRows == 3

\* Empty rows the manager's grid offers for new entries, per five of the
\* program's.
NewRows == 1

\* ------------------------------------------------------------------ text
\* pandas' missing value (None / NaN); never equal to a text.
None == <<"<NA>">>

Whitespace == {" ", "\t", "\n"}

RECURSIVE lstrip(_)
lstrip(s) == IF s # <<>> /\ Head(s) \in Whitespace THEN lstrip(Tail(s)) ELSE s

RECURSIVE rstrip(_)
rstrip(s) ==
    IF s # <<>> /\ s[Len(s)] \in Whitespace
    THEN rstrip(SubSeq(s, 1, Len(s) - 1))
    ELSE s

\* str.strip()
strip(s) == rstrip(lstrip(s))

LowerChars == <<"a","b","c","d","e","f","g","h","i","j","k","l","m",
                "n","o","p","q","r","s","t","u","v","w","x","y","z">>
UpperChars == <<"A","B","C","D","E","F","G","H","I","J","K","L","M",
                "N","O","P","Q","R","S","T","U","V","W","X","Y","Z">>

UpperChar(c) ==
    IF \E i \in DOMAIN LowerChars : LowerChars[i] = c
    THEN UpperChars[CHOOSE i \in DOMAIN LowerChars : LowerChars[i] = c]
    ELSE c

\* str.upper()
upper(s) == [i \in 1..Len(s) |-> UpperChar(s[i])]

Range(f) == { f[i] : i \in DOMAIN f }

\* str.startswith(p)
startswith(s, p) == Len(s) >= Len(p) /\ SubSeq(s, 1, Len(p)) = p

DigitChars == <<"0","1","2","3","4","5","6","7","8","9">>

\* str(n) of a non-negative integer: its decimal digits.
RECURSIVE str(_)
str(n) ==
    IF n < 10
    THEN <<DigitChars[n + 1]>>
    ELSE str(n \div 10) \o <<DigitChars[(n % 10) + 1]>>

\* 'Specifications'
SpecPrefix == <<"S","p","e","c","i","f","i","c","a","t","i","o","n","s">>

\* f'Specifications{spec_num}'
SpecCol(spec_num) == SpecPrefix \o str(spec_num)

\* 'NULL'
NULL == <<"N","U","L","L">>

\* ------------------------------------------------------- label mappings
\* A dict slot column -> label, as the sequence of its items in insertion
\* order.
EmptyMapping == <<>>

Keys(m) == {m[i].col : i \in DOMAIN m}

Values(m) == {m[i].label : i \in DOMAIN m}

\* m[c] for a key c of m
Lookup(m, c) == m[CHOOSE i \in DOMAIN m : m[i].col = c].label

\* f"{original_label} ({counter})"
Suffixed(original_label, counter) ==
    original_label \o <<" ", "(">> \o str(counter) \o <<")">>

\* --------------------------------------------------- equipment type names
Baler == <<"B","A","L","E","R">>

BalerXL == Baler \o <<" ","X","L">>

Conveyor == <<"C","O","N","V","E","Y","O","R">>

\* ------------------------------------------------------ the label fetcher
\* The test of line 178 on one catalog value.
LabelIncludedNoTrim(spec_label) ==
    /\ spec_label # None
    /\ spec_label # <<>>
    /\ upper(spec_label) # NULL

LabelIncluded(spec_label) ==
    /\ spec_label # None
    /\ strip(spec_label) # <<>>
    /\ upper(strip(spec_label)) # NULL

\* One pass where the code loops: the label is suffixed once, whether or
\* not the result is free.
MakeUniqueOnce(clean_label, original_label, counter, values) ==
    IF clean_label \in values
    THEN Suffixed(original_label, counter)
    ELSE clean_label

\* The while loop of lines 187-189.
RECURSIVE MakeUnique(_, _, _, _)
MakeUnique(clean_label, original_label, counter, values) ==
    IF clean_label \in values
    THEN MakeUnique(Suffixed(original_label, counter), original_label,
                    counter + 1, values)
    ELSE clean_label

\* The counter started at 2 instead of 1.
UniqueLabelFromTwo(clean_label, spec_mapping) ==
    MakeUnique(clean_label, clean_label, 2, Values(spec_mapping))

\* Lines 185-189: original_label = clean_label; counter = 1; while ...
UniqueLabel(clean_label, spec_mapping) ==
    MakeUnique(clean_label, clean_label, 1, Values(spec_mapping))

\* One iteration of the loop of lines 171-193 on the loop state
\* st = [spec_mapping, duplicate_labels].
LoopBody(st, spec_num, spec_row) ==
    LET spec_col == SpecCol(spec_num) IN
    IF spec_num \notin DOMAIN spec_row
    THEN st
    ELSE
      LET spec_label == spec_row[spec_num] IN
      IF ~LabelIncluded(spec_label)
      THEN st
      ELSE
        LET stripped == strip(spec_label)
            clean_label ==
                IF stripped \in DOMAIN st.duplicate_labels
                THEN UniqueLabel(stripped, st.spec_mapping)
                ELSE stripped
        IN [spec_mapping |->
                Append(st.spec_mapping,
                       [col |-> spec_col, label |-> clean_label]),
            duplicate_labels |->
                (clean_label :> spec_col) @@ st.duplicate_labels]

\* The loop state after slots 1..n of the row.
RECURSIVE BuildMapping(_, _)
BuildMapping(spec_row, n) ==
    IF n = 0
    THEN [spec_mapping |-> EmptyMapping, duplicate_labels |-> <<>>]
    ELSE LoopBody(BuildMapping(spec_row, n - 1), n, spec_row)

\* The rows the view returns for WHERE [EquipmentType] = :equipment_type.
QueryResult(cat, equipment_type) ==
    IF equipment_type \in DOMAIN cat THEN <<cat[equipment_type]>> ELSE <<>>

\* The try block of lines 144-201: exc is TRUE when it raised.
FetchBody(source, cat, equipment_type) ==
    IF source = "down"
    THEN [exc |-> TRUE, value |-> EmptyMapping]
    ELSE
      LET result == QueryResult(cat, equipment_type) IN
      IF result = <<>>
      THEN [exc |-> FALSE, value |-> EmptyMapping]
      ELSE [exc |-> FALSE,
            value |-> BuildMapping(result[1], MaxSlot).spec_mapping]

\* A fetcher that lets the query's exception escape.
GetSpecificationLabelsFromDbReraise(source, cat, equipment_type) ==
    LET r == FetchBody(source, cat, equipment_type) IN
    [raised |-> r.exc, value |-> r.value]

\* _get_specification_labels_from_db: the try block and its handler.
GetSpecificationLabelsFromDb(source, cat, equipment_type) ==
    LET r == FetchBody(source, cat, equipment_type) IN
    IF r.exc
    THEN [raised |-> FALSE, value |-> EmptyMapping]
    ELSE [raised |-> FALSE, value |-> r.value]

\* ------------------------------------------------------------ tables
\* Column names of the equipment table.
EquipmentTypeCol == <<"E","q","u","i","p","m","e","n","t","T","y","p","e">>

ModelCol == <<"M","o","d","e","l">>

NotesCol == <<"N","o","t","e","s">>

\* SELECT * column order: business columns, the slot columns, audit columns.
TableCols ==
    <<EquipmentTypeCol, ModelCol>>
        \o [i \in 1..MaxSlot |-> SpecCol(i)]
        \o <<NotesCol>>

\* The value stored in row r under column c: distinct for distinct (r, c).
Cell(r, c) == c \o <<"=">> \o str(r)

\* The equipment table whose r-th record has equipment type types[r].
TableOf(types) ==
    [cols |-> TableCols,
     rows |-> [r \in 1..Len(types) |->
                 [k \in 1..Len(TableCols) |->
                    IF TableCols[k] = EquipmentTypeCol
                    THEN types[r]
                    ELSE Cell(r, TableCols[k])]]]

\* pd.DataFrame()
EmptyFrame == [cols |-> <<>>, rows |-> <<>>]

\* df.empty: an axis of length 0
IsEmpty(df) == Len(df.cols) = 0 \/ Len(df.rows) = 0

\* Position of the (first) column named c.
ColIndex(df, c) == CHOOSE i \in DOMAIN df.cols :
                       /\ df.cols[i] = c
                       /\ \A j \in 1..(i - 1) : df.cols[j] # c

\* df.rename(columns=m)
Rename(df, m) ==
    [cols |-> [i \in 1..Len(df.cols) |->
                 IF df.cols[i] \in Keys(m)
                 THEN Lookup(m, df.cols[i])
                 ELSE df.cols[i]],
     rows |-> df.rows]

\* df.drop(columns=names): every column carrying one of the names goes.
Drop(df, names) ==
    LET keep == SelectSeq([i \in 1..Len(df.cols) |-> i],
                          LAMBDA i : df.cols[i] \notin names)
    IN [cols |-> [k \in 1..Len(keep) |-> df.cols[keep[k]]],
        rows |-> [r \in 1..Len(df.rows) |->
                    [k \in 1..Len(keep) |-> df.rows[r][keep[k]]]]]

\* [col for col in df.columns if col.startswith('Specifications')]
SpecColumnsOf(df) ==
    { df.cols[i] : i \in { i \in DOMAIN df.cols :
                             startswith(df.cols[i], SpecPrefix) } }

\* ------------------------------------------------------ the label applier
\* _remove_all_specification_columns
RemoveAllSpecificationColumns(df) ==
    LET columns_to_remove == SpecColumnsOf(df) IN
    IF columns_to_remove # {} THEN Drop(df, columns_to_remove) ELSE df

\* Python truthiness of the equipment_type argument.
Truthy(eq) == eq # None /\ eq # <<>>

\* Lines 221-234: rename, then drop what still starts with the prefix.
RenameAndStrip(df, labels) ==
    LET labeled_df == Rename(df, labels)
        remaining_spec_cols == SpecColumnsOf(labeled_df)
    IN IF remaining_spec_cols # {}
       THEN Drop(labeled_df, remaining_spec_cols)
       ELSE labeled_df

\* _apply_dynamic_specification_labels: the returned table, the mapping it
\* fetched (fetched = FALSE: no fetch was made) and whether the rename of
\* line 225 was applied.
ApplyDynamicSpecificationLabels(source, cat, df, eq) ==
    IF IsEmpty(df)
    THEN [out |-> df, fetched |-> FALSE, labels |-> EmptyMapping,
          renamed |-> FALSE]
    ELSE IF Truthy(eq)
    THEN
      LET r == GetSpecificationLabelsFromDb(source, cat, eq) IN
      IF r.raised
      THEN [out |-> df, fetched |-> TRUE, labels |-> EmptyMapping,
            renamed |-> FALSE]
      ELSE IF r.value # EmptyMapping
      THEN [out |-> RenameAndStrip(df, r.value), fetched |-> TRUE,
            labels |-> r.value, renamed |-> TRUE]
      ELSE [out |-> RemoveAllSpecificationColumns(df), fetched |-> TRUE,
            labels |-> EmptyMapping, renamed |-> FALSE]
    ELSE [out |-> RemoveAllSpecificationColumns(df), fetched |-> FALSE,
          labels |-> EmptyMapping, renamed |-> FALSE]

\* ------------------------------------------------ the mixed-type reconciler
\* df[c]: the values of column c, row by row.
ColumnValues(d, c) == [r \in 1..Len(d.rows) |-> d.rows[r][ColIndex(d, c)]]

\* Series.dropna()
DropNa(values) == SelectSeq(values, LAMBDA v : v # None)

\* Series.unique(): the distinct values in order of first appearance.
RECURSIVE Unique(_)
Unique(values) ==
    IF values = <<>>
    THEN <<>>
    ELSE LET rest == Unique(SubSeq(values, 1, Len(values) - 1))
             last == values[Len(values)]
         IN IF last \in Range(rest) THEN rest ELSE Append(rest, last)

Count(values, v) == Cardinality({ i \in DOMAIN values : values[i] = v })

\* The keys sorted by descending count, equal counts in the order given.
RECURSIVE SortByCount(_, _)
SortByCount(keys, values) ==
    IF keys = <<>>
    THEN <<>>
    ELSE
      LET best == CHOOSE i \in DOMAIN keys :
                    \A j \in DOMAIN keys :
                      \/ Count(values, keys[j]) < Count(values, keys[i])
                      \/ /\ Count(values, keys[j]) = Count(values, keys[i])
                         /\ i <= j
          others == [k \in 1..(Len(keys) - 1) |->
                        IF k < best THEN keys[k] ELSE keys[k + 1]]
      IN <<[type |-> keys[best], count |-> Count(values, keys[best])]>>
            \o SortByCount(others, values)

\* Series.value_counts(): missing values dropped, most frequent first.
ValueCounts(values) == SortByCount(Unique(DropNa(values)), values)

\* The least frequent type where the code takes the most frequent one.
PrimaryTypeLast(d) ==
    LET type_counts == ValueCounts(ColumnValues(d, EquipmentTypeCol))
    IN type_counts[Len(type_counts)].type

\* Lines 989-990: type_counts.index[0]
PrimaryType(d) ==
    LET type_counts == ValueCounts(ColumnValues(d, EquipmentTypeCol))
    IN type_counts[1].type

\* The distinct non-null equipment types of a row set.
TypesIn(d) ==
    IF EquipmentTypeCol \in Range(d.cols)
    THEN Range(DropNa(ColumnValues(d, EquipmentTypeCol)))
    ELSE {}

\* The rename a call of the applier did, with the types of its rows.
CallsOf(r, d, eq) ==
    IF r.renamed THEN {[eq |-> eq, types |-> TypesIn(d)]} ELSE {}

\* _apply_dynamic_specification_labels_to_mixed_data
ApplyDynamicSpecificationLabelsToMixedData(source, cat, d) ==
    IF IsEmpty(d) \/ EquipmentTypeCol \notin Range(d.cols)
    THEN [out |-> RemoveAllSpecificationColumns(d), notices |-> {},
          primary |-> None, calls |-> {}]
    ELSE
      LET unique_types == Unique(DropNa(ColumnValues(d, EquipmentTypeCol)))
      IN
      IF Len(unique_types) = 1
      THEN LET r == ApplyDynamicSpecificationLabels(source, cat, d,
                                                    unique_types[1])
           IN [out |-> r.out, notices |-> {},
               primary |-> unique_types[1],
               calls |-> CallsOf(r, d, unique_types[1])]
      ELSE IF Len(unique_types) > 1
      THEN LET primary_type == PrimaryType(d)
               r == ApplyDynamicSpecificationLabels(source, cat, d,
                                                    primary_type)
           IN [out |-> r.out, notices |-> {"mixed_types"},
               primary |-> primary_type,
               calls |-> CallsOf(r, d, primary_type)]
      ELSE [out |-> RemoveAllSpecificationColumns(d), notices |-> {},
            primary |-> None, calls |-> {}]

\* ------------------------------------------------------ the search paths
\* [field] LIKE '%value%'
Contains(text, value) ==
    \E i \in 1..(Len(text) - Len(value) + 1) :
        SubSeq(text, i, i + Len(value) - 1) = value

\* _perform_advanced_search: the equipment type criterion eq (when set) and
\* other criteria (others), which every record of the table matches.
PerformAdvancedSearch(tbl, eq, others, dbOk) ==
    LET typed == Truthy(eq) /\ strip(eq) # <<>> IN
    IF ~dbOk \/ (~typed /\ ~others)
    THEN EmptyFrame
    ELSE [cols |-> tbl.cols,
          rows |-> SelectSeq(tbl.rows,
                     LAMBDA row :
                       typed =>
                         /\ row[ColIndex(tbl, EquipmentTypeCol)] # None
                         /\ Contains(row[ColIndex(tbl, EquipmentTypeCol)],
                                     strip(eq)))]

\* _display_equipment_wise_results: the labelled table of each group.
DisplayEquipmentWiseResults(source, cat, results) ==
    IF IsEmpty(results)
    THEN [groups |-> <<>>, notices |-> {"none_found"}, calls |-> {}]
    ELSE IF EquipmentTypeCol \in Range(results.cols)
    THEN
      LET equipment_types == TypesIn(results)
          group(t) ==
            [cols |-> results.cols,
             rows |-> SelectSeq(results.rows,
                        LAMBDA row :
                          row[ColIndex(results, EquipmentTypeCol)] = t)]
          labeled(t) ==
            ApplyDynamicSpecificationLabels(source, cat, group(t), t)
      IN [groups |-> [t \in equipment_types |-> labeled(t).out],
          notices |-> IF Cardinality(equipment_types) > 1
                      THEN {"per_type_labels"} ELSE {},
          calls |-> UNION { CallsOf(labeled(t), group(t), t) :
                              t \in equipment_types }]
    ELSE
      LET m == ApplyDynamicSpecificationLabelsToMixedData(source, cat,
                                                          results)
      IN [groups |-> <<>>, notices |-> m.notices, calls |-> m.calls]

\* ------------------------------------------------------- column names
\* The names of the columns of the equipment table, as text.
CustomerIDCol ==
    <<"C","u","s","t","o","m","e","r","I","D">>

CustomerNameCol ==
    <<"C","u","s","t","o","m","e","r","N","a","m","e">>

CustomerLocationCol ==
    <<"C","u","s","t","o","m","e","r","L","o","c","a","t","i","o","n">>

ActiveStatusCol ==
    <<"A","c","t","i","v","e","S","t","a","t","u","s">>

SerialNumberCol ==
    <<"S","e","r","i","a","l","N","u","m","b","e","r">>

CustomerPositionNoCol ==
    <<"C","u","s","t","o","m","e","r","P","o","s","i","t","i","o","n","N","o">>

ManufacturerCol ==
    <<"M","a","n","u","f","a","c","t","u","r","e","r">>

ManufacturerProjectIDCol ==
    <<"M","a","n","u","f","a","c","t","u","r","e","r","P","r","o","j","e","c","t","I","D">>

ParentProjectIDCol ==
    <<"P","a","r","e","n","t","P","r","o","j","e","c","t","I","D">>

EquipmentKeyCol ==
    <<"E","q","u","i","p","m","e","n","t","K","e","y">>

RecordHistoryCol ==
    <<"R","e","c","o","r","d","H","i","s","t","o","r","y">>

RowCounterCol ==
    <<"R","o","w","C","o","u","n","t","e","r">>

MachineInfoIDCol ==
    <<"M","a","c","h","i","n","e","I","n","f","o","I","D">>

\* The business columns, in the order of the SQL table.
priority_columns ==
    << CustomerIDCol, CustomerNameCol, CustomerLocationCol,
       ActiveStatusCol,
       <<"S","o","r","t","S","y","s","t","e","m","P","o","s","i","t","i","o","n">>,
       SerialNumberCol,
       <<"O","t","h","e","r","O","r","P","r","e","v","i","o","u","s","P","o","s","i","t","i","o","n">>,
       CustomerPositionNoCol,
       <<"Y","e","a","r","M","a","n","u","f","a","c","t","u","r","e","d">>,
       <<"S","a","l","e","s","D","a","t","e","W","a","r","r","a","n","t","y","S","t","a","r","t","D","a","t","e">>,
       <<"I","n","s","t","a","l","l","D","a","t","e">>,
       ManufacturerCol, ManufacturerProjectIDCol, ParentProjectIDCol,
       EquipmentTypeCol,
       <<"F","u","n","c","t","i","o","n","a","l","T","y","p","e">>,
       <<"F","u","n","c","t","i","o","n","a","l","P","o","s","i","t","i","o","n">>,
       <<"M","a","n","u","f","a","c","t","u","r","e","r","M","o","d","e","l","D","e","s","c","r","i","p","t","i","o","n">>,
       ModelCol >>

\* The audit and system columns, as the orderer lists them.
system_column_names ==
    << NotesCol, EquipmentKeyCol, RecordHistoryCol,
       RowCounterCol, MachineInfoIDCol,
       <<"U","p","l","o","a","d","s","P","e","n","d","i","n","g","I","D">>,
       <<"H","a","s","h","e","d","S","e","r","i","a","l","N","u","m","b","e","r">> >>

\* ---------------------------------------------------------- the orderer
\* The characters of the model in ascending code point order.
CodePointOrder ==
    <<" ", "(", ")">> \o DigitChars \o <<"<", "=", ">">> \o UpperChars
       \o <<"_">> \o LowerChars

\* The rank of a character in that order.
ord(c) == CHOOSE i \in DOMAIN CodePointOrder : CodePointOrder[i] = c

\* Python's < on text: lexicographic by code point.
RECURSIVE TextLess(_, _)
TextLess(a, b) ==
    IF a = <<>> THEN b # <<>>
    ELSE IF b = <<>> THEN FALSE
    ELSE IF Head(a) = Head(b) THEN TextLess(Tail(a), Tail(b))
    ELSE ord(Head(a)) < ord(Head(b))

\* A sorted list with one more text put in its place (after its equals).
InsertText(s, x) ==
    LET k == Cardinality({ i \in DOMAIN s : ~TextLess(x, s[i]) })
    IN SubSeq(s, 1, k) \o <<x>> \o SubSeq(s, k + 1, Len(s))

\* The list left as it is.
unsorted(s) == s

\* Python's sorted() on a list of text.
RECURSIVE sorted(_)
sorted(s) ==
    IF s = <<>> THEN <<>>
    ELSE InsertText(sorted(SubSeq(s, 1, Len(s) - 1)), s[Len(s)])

\* Python's < on (number, text) pairs.
PairLess(p, q) == p[1] < q[1] \/ (p[1] = q[1] /\ TextLess(p[2], q[2]))

\* Python's list.sort() on a list of (number, text) pairs.
RECURSIVE SortPairs(_)
SortPairs(s) ==
    IF s = <<>> THEN <<>>
    ELSE LET t == SortPairs(SubSeq(s, 1, Len(s) - 1))
             x == s[Len(s)]
             k == Cardinality({ i \in DOMAIN t : ~PairLess(x, t[i]) })
         IN SubSeq(t, 1, k) \o <<x>> \o SubSeq(t, k + 1, Len(t))

\* str.isdigit(): not empty, and decimal digits only.
isdigit(s) == s # <<>> /\ \A i \in DOMAIN s : s[i] \in Range(DigitChars)

\* int() of a text of decimal digits.
RECURSIVE int(_)
int(s) ==
    IF s = <<>> THEN 0
    ELSE 10 * int(SubSeq(s, 1, Len(s) - 1))
         + ((CHOOSE i \in DOMAIN DigitChars : DigitChars[i] = s[Len(s)]) - 1)

\* col[13:], the text from the fourteenth character on.
NumberPart(col) == SubSeq(col, 14, Len(col))

\* The columns the first loop puts in spec_columns, in the frame's order.
SpecBucket(columns) ==
    SelectSeq(columns, LAMBDA col :
        /\ col \notin Range(priority_columns)
        /\ \/ startswith(col, SpecPrefix)
           \/ col \notin Range(system_column_names))

\* The columns the first loop puts in system_columns.
SystemBucket(columns) ==
    SelectSeq(columns, LAMBDA col :
        /\ col \notin Range(priority_columns)
        /\ ~startswith(col, SpecPrefix)
        /\ col \in Range(system_column_names))

\* Whether the second loop takes a column for a numbered slot column.
IsNumbered(col) == startswith(col, SpecPrefix) /\ isdigit(NumberPart(col))

\* The column order of the editing grid for a frame with these columns.
GetOrderedColumnsForEditing(columns) ==
    LET spec_columns == SpecBucket(columns)
        system_columns == SystemBucket(columns)
        present == SelectSeq(priority_columns,
                             LAMBDA col : col \in Range(columns))
        numbered == SelectSeq(spec_columns, IsNumbered)
        spec_columns_sorted ==
            SortPairs([i \in DOMAIN numbered |->
                          <<int(NumberPart(numbered[i])), numbered[i]>>])
        other_spec_columns ==
            SelectSeq(spec_columns, LAMBDA col : ~IsNumbered(col))
    IN present
       \o [i \in DOMAIN spec_columns_sorted |-> spec_columns_sorted[i][2]]
       \o sorted(other_spec_columns)
       \o sorted(system_columns)

\* ------------------------------------------------------ dicts and values
\* A Python dict is a sequence of [key, value] records in insertion order.
\* d[key] = value: a key already there keeps its place and takes the value.
SetItem(d, key, value) ==
    IF \E i \in DOMAIN d : d[i].key = key
    THEN [i \in DOMAIN d |->
            IF d[i].key = key THEN [key |-> key, value |-> value] ELSE d[i]]
    ELSE Append(d, [key |-> key, value |-> value])

\* list(d.keys())
DictKeys(d) == [i \in DOMAIN d |-> d[i].key]

\* d[key]
GetItem(d, key) == d[CHOOSE i \in DOMAIN d : d[i].key = key].value

\* d.get(col, ''), for a row or a record held as a function of its columns.
Get(row, col) == IF col \in DOMAIN row THEN row[col] ELSE <<>>

\* str(val): the text itself; the missing value prints as 'None'.
StrOf(val) == IF val = None THEN <<"N","o","n","e">> ELSE val

\* Truth of a value in a condition: neither the missing value nor ''.
IsTruthy(val) == val # None /\ val # <<>>

\* list.index(x) + 1: the place of the first x in the list.
IndexOf(list, x) ==
    CHOOSE i \in DOMAIN list :
        list[i] = x /\ \A j \in 1..(i - 1) : list[j] # x

\* s joined by sep.
RECURSIVE Join(_, _)
Join(parts, sep) ==
    IF parts = <<>> THEN <<>>
    ELSE IF Len(parts) = 1 THEN parts[1]
    ELSE parts[1] \o sep \o Join(Tail(parts), sep)

\* --------------------------------------------- the manager's column lists
\* Config.FIXED_FIELDS
FIXED_FIELDS ==
    << CustomerIDCol, CustomerNameCol, CustomerLocationCol, ActiveStatusCol,
       ManufacturerCol, ManufacturerProjectIDCol, ParentProjectIDCol >>

\* base_columns of _get_dynamic_columns and _load_existing_equipment_data
base_columns == priority_columns

\* end_columns of _get_dynamic_columns and _load_existing_equipment_data
end_columns == system_column_names

\* The slot columns of the table: Specifications1..50 (here 1..MaxSlot).
SlotColumns == [i \in 1..MaxSlot |-> SpecCol(i)]

\* The slot columns the manager loads and shows without labels:
\* Specifications1..20 of the 50 (here all but the last).
ManagerSlots == MaxSlot - 1

\* SQL_COLUMN_ORDER
SQL_COLUMN_ORDER == base_columns \o SlotColumns \o end_columns

StatusCol ==
    <<"S","t","a","t","u","s">>

RowIDCol ==
    <<"R","o","w","I","D">>

\* ------------------------------------------- the manager's label fetcher
\* The mapping built from the label list: label -> 'Specifications{i}'.
RECURSIVE LabelMapping(_, _)
LabelMapping(labels, n) ==
    IF n = 0 THEN <<>>
    ELSE SetItem(LabelMapping(labels, n - 1), labels[n], SpecCol(n))

\* _fetch_specification_labels: view is what the label view returns for the
\* equipment type; a failed query gives the empty mapping.
FetchSpecificationLabels(source, view) ==
    IF source = "down" \/ IsEmpty(view) THEN <<>>
    ELSE LET names ==
                 << <<"S","p","e","c","i","f","i","c","a","t","i","o","n","L","a","b","e","l">>,
                 <<"L","a","b","e","l">>,
                 <<"S","p","e","c","i","f","i","c","a","t","i","o","n">>,
                 <<"N","a","m","e">> >>
             found == SelectSeq(names, LAMBDA c : c \in Range(view.cols))
         IN IF found = <<>> THEN <<>>
            ELSE LET labels == ColumnValues(view, found[1])
                 IN LabelMapping(labels, Len(labels))

\* _get_dynamic_columns: [display_columns, spec_mapping]
GetDynamicColumns(source, view, equipment_type) ==
    LET spec_mapping == IF IsTruthy(equipment_type)
                        THEN FetchSpecificationLabels(source, view)
                        ELSE <<>>
    IN IF spec_mapping # <<>>
       THEN [display_columns |->
                 base_columns \o DictKeys(spec_mapping) \o end_columns,
             spec_mapping |-> spec_mapping]
       ELSE [display_columns |->
                 base_columns \o [i \in 1..ManagerSlots |-> SpecCol(i)]
                              \o end_columns,
             spec_mapping |-> <<>>]

\* ---------------------------------------------- row identity and hashing
\* _generate_row_id; the digest of a text is modelled by the text itself.
GenerateRowId(row_data) ==
    IF IsTruthy(Get(row_data, SerialNumberCol))
    THEN <<"S","N","_">> \o StrOf(row_data[SerialNumberCol])
    ELSE IF IsTruthy(Get(row_data, RowCounterCol))
    THEN <<"R","C","_">> \o StrOf(row_data[RowCounterCol])
    ELSE IF IsTruthy(Get(row_data, MachineInfoIDCol))
    THEN <<"M","I","_">> \o StrOf(row_data[MachineInfoIDCol])
    ELSE LET fields == << CustomerIDCol, CustomerPositionNoCol,
                          EquipmentTypeCol, ModelCol >>
             vals == [i \in DOMAIN fields |->
                        strip(StrOf(Get(row_data, fields[i])))]
             composite_parts == SelectSeq(vals, LAMBDA v : v # <<>>)
         IN IF composite_parts # <<>>
            THEN <<"C","K","_">> \o Join(composite_parts, <<"_">>)
            ELSE LET shown == SelectSeq(
                            [i \in DOMAIN SQL_COLUMN_ORDER |->
                               StrOf(Get(row_data, SQL_COLUMN_ORDER[i]))],
                            LAMBDA v : strip(v) # <<>>)
                 IN <<"R","H","_">> \o Join(shown, <<"_">>)

\* _get_row_hash; the digest of the stripped values is modelled by the
\* values themselves.
GetRowHash(row_data) ==
    [i \in DOMAIN SQL_COLUMN_ORDER |->
        strip(StrOf(Get(row_data, SQL_COLUMN_ORDER[i])))]

\* ------------------------------------------------- loading and the grid
\* row.to_dict(): the r-th row of a frame as a function of its columns.
RowDict(frame, r) ==
    [c \in Range(frame.cols) |-> frame.rows[r][ColIndex(frame, c)]]

\* ORDER BY SerialNumber: NULL first, then ascending.
RECURSIVE OrderBySerialNumber(_, _)
OrderBySerialNumber(rows, k) ==
    IF rows = <<>> THEN <<>>
    ELSE LET SerialBefore(a, b) ==
                 IF a = None THEN b # None ELSE b # None /\ TextLess(a, b)
             t == OrderBySerialNumber(SubSeq(rows, 1, Len(rows) - 1), k)
             x == rows[Len(rows)]
             n == Cardinality({ i \in DOMAIN t :
                                  ~SerialBefore(x[k], t[i][k]) })
         IN SubSeq(t, 1, n) \o <<x>> \o SubSeq(t, n + 1, Len(t))

\* _check_column_exists
CheckColumnExists(tbl, column_name) == column_name \in Range(tbl.cols)

\* _load_existing_equipment_data: the frame read, without the hash tracking.
LoadExistingEquipmentData(tbl, selected_type) ==
    LET available_cols ==
            base_columns
              \o SelectSeq([i \in 1..ManagerSlots |-> SpecCol(i)],
                           LAMBDA c : CheckColumnExists(tbl, c))
              \o SelectSeq(end_columns, LAMBDA c : CheckColumnExists(tbl, c))
        matching ==
            SelectSeq(tbl.rows, LAMBDA row :
                IsTruthy(selected_type) =>
                    row[ColIndex(tbl, EquipmentTypeCol)] = selected_type)
        ordered == OrderBySerialNumber(matching,
                                       ColIndex(tbl, SerialNumberCol))
    IN [cols |-> available_cols,
        rows |-> [r \in DOMAIN ordered |->
                    [k \in DOMAIN available_cols |->
                       ordered[r][ColIndex(tbl, available_cols[k])]]]]

\* The hashes _load_existing_equipment_data stores for the rows it read.
RECURSIVE StoreHashes(_, _, _)
StoreHashes(hashes, existing_df, n) ==
    IF n = 0 THEN hashes
    ELSE LET row == RowDict(existing_df, n)
         IN (GenerateRowId(row) :> GetRowHash(row))
               @@ StoreHashes(hashes, existing_df, n - 1)

\* new_row_count: 10 for an empty frame, else 5 (here twice NewRows, else
\* NewRows).
NewRowCount(existing_df) ==
    IF IsEmpty(existing_df) THEN 2 * NewRows ELSE NewRows

\* _build_complete_grid: the grid as [cols, rows], each row a function of
\* the grid's columns.
BuildCompleteGrid(source, view, sess, existing_df) ==
    LET selected_type == sess[<<"s","e","l","e","c","t","e","d","_","e","q","u","i","p","m","e","n","t","_","t","y","p","e">>]
        dyn == GetDynamicColumns(source, view, selected_type)
        display_columns == dyn.display_columns
        spec_mapping == dyn.spec_mapping
        names == {StatusCol, RowIDCol} \cup Range(display_columns)
        StatusText(mark, n) ==
            mark \o (IF IsTruthy(selected_type)
                     THEN selected_type \o <<" ">> ELSE <<>>)
                 \o <<"#">> \o str(n)
        existing_row(r) ==
            LET row == RowDict(existing_df, r)
            IN [c \in names |->
                  IF c = StatusCol
                  THEN StatusText(<<"*"," ">>, r)
                  ELSE IF c = RowIDCol THEN GenerateRowId(row)
                  ELSE IF c \in Range(DictKeys(spec_mapping))
                  THEN LET db_col == GetItem(spec_mapping, c)
                       IN IF db_col \in DOMAIN row THEN row[db_col] ELSE <<>>
                  ELSE IF c \in DOMAIN row THEN row[c] ELSE <<>>]
        new_row(i) ==
            [c \in names |->
               IF c = StatusCol
               THEN StatusText(<<"+"," ","N","e","w"," ">>, i)
               ELSE IF c = RowIDCol THEN <<"N","E","W","_">> \o str(i)
               ELSE IF c \in Range(FIXED_FIELDS) THEN Get(sess, c)
               ELSE IF c = EquipmentTypeCol
               THEN (IF IsTruthy(selected_type) THEN selected_type ELSE <<>>)
               ELSE <<>>]
    IN [cols |-> <<StatusCol, RowIDCol>> \o display_columns,
        rows |-> [r \in 1..Len(existing_df.rows) |-> existing_row(r)]
                   \o [i \in 1..NewRowCount(existing_df) |-> new_row(i)]]

\* Whether a row has no text in any of the columns.
IsBlankRow(row_dict, cols) ==
    \A i \in DOMAIN cols : strip(StrOf(Get(row_dict, cols[i]))) = <<>>

\* _detect_changes: the places of the modified and of the new rows.
DetectChanges(edited_df, hashes) ==
    LET filled == SelectSeq([r \in DOMAIN edited_df.rows |-> r],
                     LAMBDA r : ~IsBlankRow(edited_df.rows[r],
                                            SQL_COLUMN_ORDER))
        is_new(r) == startswith(edited_df.rows[r][RowIDCol],
                                <<"N","E","W","_">>)
    IN [new_rows |-> SelectSeq(filled, is_new),
        modified_rows |->
            SelectSeq(filled, LAMBDA r :
                /\ ~is_new(r)
                /\ GetRowHash(edited_df.rows[r])
                     # Get(hashes, edited_df.rows[r][RowIDCol]))]

\* ------------------------------------------------------------ the save
\* get_user_identity: the engineer name of the session, else the operating
\* system's USERNAME, else its USER, else 'Unknown'.
GetUserIdentity(sess, environ) ==
    IF IsTruthy(Get(sess, <<"E","n","g","i","n","e","e","r","N","a","m","e">>))
    THEN sess[<<"E","n","g","i","n","e","e","r","N","a","m","e">>]
    ELSE IF IsTruthy(Get(environ, <<"U","S","E","R","N","A","M","E">>))
    THEN environ[<<"U","S","E","R","N","A","M","E">>]
    ELSE IF IsTruthy(Get(environ, <<"U","S","E","R">>))
    THEN environ[<<"U","S","E","R">>]
    ELSE <<"U","n","k","n","o","w","n">>

\* str(val) if pd.notna(val) and str(val).strip() != '' else None
Normalize(val) ==
    IF val # None /\ strip(StrOf(val)) # <<>> THEN StrOf(val) ELSE None

\* The record built with the fixed fields read from the grid row like any
\* other column.
RECURSIVE BuildRecordFromGrid(_, _, _, _, _)
BuildRecordFromGrid(row_dict, display_columns, spec_labels, sess, n) ==
    IF n = 0 THEN <<>>
    ELSE LET record == BuildRecordFromGrid(row_dict, display_columns,
                                           spec_labels, sess, n - 1)
             col == display_columns[n]
         IN IF col \in Range(SQL_COLUMN_ORDER)
            THEN (col :> Normalize(Get(row_dict, col))) @@ record
            ELSE IF col \in Range(spec_labels)
            THEN (SpecCol(IndexOf(spec_labels, col))
                     :> Normalize(Get(row_dict, col))) @@ record
            ELSE record

\* The record built from the first n display columns of a grid row.
RECURSIVE BuildRecord(_, _, _, _, _)
BuildRecord(row_dict, display_columns, spec_labels, sess, n) ==
    IF n = 0 THEN <<>>
    ELSE LET record == BuildRecord(row_dict, display_columns, spec_labels,
                                   sess, n - 1)
             col == display_columns[n]
         IN IF col \in Range(FIXED_FIELDS)
            THEN (col :> Get(sess, col)) @@ record
            ELSE IF col \in Range(SQL_COLUMN_ORDER)
            THEN (col :> Normalize(Get(row_dict, col))) @@ record
            ELSE IF col \in Range(spec_labels)
            THEN (SpecCol(IndexOf(spec_labels, col))
                     :> Normalize(Get(row_dict, col))) @@ record
            ELSE record

\* The entry a save adds to the history.
EditInfo(timestamp, is_new, user_identity) ==
    <<"[">> \o timestamp \o <<"]", " ">>
        \o (IF is_new THEN <<"C","r","e","a","t","e","d">>
            ELSE <<"M","o","d","i","f","i","e","d">>)
        \o <<" ", "b", "y", ":", " ">> \o user_identity

\* The RecordHistory written: the grid row's history, a newline and the
\* entry, or the entry alone.
NewHistory(row_dict, edit_info) ==
    LET held == Get(row_dict, RecordHistoryCol)
        existing_history == IF IsTruthy(held) THEN held ELSE <<>>
    IN IF existing_history # <<>>
       THEN existing_history \o <<"\n">> \o edit_info
       ELSE edit_info

\* _get_database_key_fields: the kind of key and the equalities of the
\* WHERE clause it gives (column -> value).
GetDatabaseKeyFields(record) ==
    IF IsTruthy(Get(record, SerialNumberCol))
    THEN [key_type |-> "SerialNumber",
          where |-> (SerialNumberCol :> record[SerialNumberCol])]
    ELSE IF IsTruthy(Get(record, RowCounterCol))
    THEN [key_type |-> "RowCounter",
          where |-> (RowCounterCol :> record[RowCounterCol])]
    ELSE IF IsTruthy(Get(record, MachineInfoIDCol))
    THEN [key_type |-> "MachineInfoID",
          where |-> (MachineInfoIDCol :> record[MachineInfoIDCol])]
    ELSE LET fields == { f \in { CustomerIDCol, CustomerPositionNoCol,
                                 EquipmentTypeCol } :
                           IsTruthy(Get(record, f)) }
         IN IF fields # {}
            THEN [key_type |-> "COMPOSITE",
                  where |-> [f \in fields |-> record[f]]]
            ELSE [key_type |-> "NONE", where |-> <<>>]

\* _get_next_row_counter: ISNULL(MAX([RowCounter]), 0) + 1
GetNextRowCounter(tbl) ==
    LET k == ColIndex(tbl, RowCounterCol)
        counters == { int(tbl.rows[r][k]) :
                        r \in { r \in DOMAIN tbl.rows :
                                  tbl.rows[r][k] # None } }
    IN IF counters = {} THEN 1
       ELSE (CHOOSE m \in counters : \A c \in counters : c <= m) + 1

\* The rows of the table a WHERE clause selects.
Matching(tbl, where) ==
    { r \in DOMAIN tbl.rows :
        \A c \in DOMAIN where : tbl.rows[r][ColIndex(tbl, c)] = where[c] }

\* The table after INSERT INTO ... VALUES of a record.
Inserted(tbl, db_record) ==
    [cols |-> tbl.cols,
     rows |-> Append(tbl.rows,
                 [k \in DOMAIN tbl.cols |->
                    IF tbl.cols[k] \in DOMAIN db_record
                    THEN db_record[tbl.cols[k]] ELSE None])]

\* The table after UPDATE ... SET ... WHERE.
Updated(tbl, set, where) ==
    [cols |-> tbl.cols,
     rows |-> [r \in DOMAIN tbl.rows |->
                 IF r \in Matching(tbl, where)
                 THEN [k \in DOMAIN tbl.cols |->
                         IF tbl.cols[k] \in DOMAIN set
                         THEN set[tbl.cols[k]] ELSE tbl.rows[r][k]]
                 ELSE tbl.rows[r]]]

\* An INSERT of the record, with a fresh RowCounter and only columns of
\* the table, and an UPDATE of the records its key selects, setting every
\* column of the record that the table has but for the three identifiers;
\* ok says the database did not refuse the statement, old holds the
\* records the WHERE clause selects as they were before it.
InsertOf(tbl, r, record, has_row_counter, rejects) ==
    LET counted == IF has_row_counter
                   THEN (RowCounterCol :> str(GetNextRowCounter(tbl)))
                           @@ record
                   ELSE record
    IN [stmt |-> "INSERT",
        params |-> [c \in { c \in DOMAIN counted :
                              CheckColumnExists(tbl, c) } |-> counted[c]],
        where |-> <<>>, rowcount |-> 1, old |-> <<>>,
        ok |-> <<r, "INSERT">> \notin rejects]

UpdateOf(tbl, r, record, rejects) ==
    LET key == GetDatabaseKeyFields(record)
    IN [stmt |-> "UPDATE",
        params |-> [c \in { c \in DOMAIN record :
                              /\ c \notin {SerialNumberCol, RowCounterCol,
                                            MachineInfoIDCol}
                              /\ CheckColumnExists(tbl, c) } |-> record[c]],
        where |-> key.where,
        rowcount |-> Cardinality(Matching(tbl, key.where)),
        old |-> [m \in Matching(tbl, key.where) |-> tbl.rows[m]],
        ok |-> <<r, "UPDATE">> \notin rejects]

\* The write of an UPDATE that found no record and is left at that.
WriteRowNoFallback(tbl, r, record, is_new, has_row_counter, rejects) ==
    LET key == GetDatabaseKeyFields(record)
        ins == InsertOf(tbl, r, record, has_row_counter, rejects)
        upd == UpdateOf(tbl, r, record, rejects)
    IN IF key.key_type = "NONE" \/ is_new
       THEN IF ~ins.ok
            THEN [table |-> tbl, statements |-> <<ins>>, saved |-> FALSE]
            ELSE [table |-> Inserted(tbl, ins.params),
                  statements |-> <<ins>>, saved |-> TRUE]
       ELSE IF ~upd.ok
            THEN [table |-> tbl, statements |-> <<upd>>, saved |-> FALSE]
            ELSE [table |-> Updated(tbl, upd.params, upd.where),
                  statements |-> <<upd>>, saved |-> TRUE]

\* Lines 962-1016: the statements run for one record, the row in its own
\* transaction; rejects holds the (row, statement) pairs the database
\* refuses. Gives the table after it, the statements and whether the
\* transaction committed.
WriteRow(tbl, r, record, is_new, has_row_counter, rejects) ==
    LET key == GetDatabaseKeyFields(record)
        ins == InsertOf(tbl, r, record, has_row_counter, rejects)
        upd == UpdateOf(tbl, r, record, rejects)
    IN IF key.key_type = "NONE" \/ is_new
       THEN IF ~ins.ok
            THEN [table |-> tbl, statements |-> <<ins>>, saved |-> FALSE]
            ELSE [table |-> Inserted(tbl, ins.params),
                  statements |-> <<ins>>, saved |-> TRUE]
       ELSE IF ~upd.ok
            THEN [table |-> tbl, statements |-> <<upd>>, saved |-> FALSE]
            ELSE IF upd.rowcount # 0
            THEN [table |-> Updated(tbl, upd.params, upd.where),
                  statements |-> <<upd>>, saved |-> TRUE]
            ELSE IF ~ins.ok
            THEN [table |-> tbl, statements |-> <<upd, ins>>,
                  saved |-> FALSE]
            ELSE [table |-> Inserted(tbl, ins.params),
                  statements |-> <<upd, ins>>, saved |-> TRUE]

\* Lines 921-1028: one pass of the loop, for the row at place r of the
\* grid. st is the state of the save so far: the table, the hashes, the
\* count of saved rows, the errors and, for every row gone through, what
\* was done with it; written holds the records its transaction left
\* inserted or updated, as they were when it committed.
ProcessRow(st, r, edited_df, is_new, ctx) ==
    LET row_dict == edited_df.rows[r]
        built == BuildRecord(row_dict, ctx.display_columns, ctx.spec_labels,
                             ctx.sess, Len(ctx.display_columns))
        edit_info == EditInfo(ctx.timestamp, is_new, ctx.user_identity)
        record == (RecordHistoryCol :> NewHistory(row_dict, edit_info))
                     @@ built
        w == WriteRow(st.table, r, record, is_new, ctx.has_row_counter,
                      ctx.rejects)
        last == w.statements[Len(w.statements)]
        written == IF ~w.saved THEN {}
                   ELSE IF last.stmt = "INSERT"
                   THEN {w.table.rows[Len(w.table.rows)]}
                   ELSE { w.table.rows[m] : m \in DOMAIN last.old }
        entry == [row |-> r, is_new |-> is_new, record |-> record,
                  key_type |-> GetDatabaseKeyFields(record).key_type,
                  statements |-> w.statements, saved |-> w.saved,
                  written |-> written]
    IN IF IsBlankRow(row_dict, ctx.display_columns)
       THEN st
       ELSE IF w.saved
       THEN [table |-> w.table,
             hashes |-> IF is_new THEN st.hashes
                        ELSE (row_dict[RowIDCol] :> GetRowHash(record))
                                @@ st.hashes,
             success_count |-> st.success_count + 1,
             errors |-> st.errors,
             log |-> Append(st.log, entry)]
       ELSE [table |-> st.table,
             hashes |-> st.hashes,
             success_count |-> st.success_count,
             errors |-> Append(st.errors, r),
             log |-> Append(st.log, entry)]

\* The loop over rows_to_process, stopped at the first row that fails.
RECURSIVE ProcessRowsUntilError(_, _, _, _, _)
ProcessRowsUntilError(st, rows_to_process, edited_df, new_rows, ctx) ==
    IF rows_to_process = <<>> \/ st.errors # <<>> THEN st
    ELSE ProcessRowsUntilError(
             ProcessRow(st, Head(rows_to_process), edited_df,
                        Head(rows_to_process) \in Range(new_rows), ctx),
             Tail(rows_to_process), edited_df, new_rows, ctx)

\* The loop over rows_to_process.
RECURSIVE ProcessRows(_, _, _, _, _)
ProcessRows(st, rows_to_process, edited_df, new_rows, ctx) ==
    IF rows_to_process = <<>> THEN st
    ELSE ProcessRows(
             ProcessRow(st, Head(rows_to_process), edited_df,
                        Head(rows_to_process) \in Range(new_rows), ctx),
             Tail(rows_to_process), edited_df, new_rows, ctx)

\* _save_changes_only
SaveChangesOnly(tbl, hashes, edited_df, source, view, sess, environ, timestamp, rejects) ==
    LET selected_type == sess[<<"s","e","l","e","c","t","e","d","_","e","q","u","i","p","m","e","n","t","_","t","y","p","e">>]
        dyn == GetDynamicColumns(source, view, selected_type)
        changes == DetectChanges(edited_df, hashes)
        spec_labels ==
            IF IsTruthy(selected_type)
            THEN DictKeys(FetchSpecificationLabels(source, view))
            ELSE <<>>
        ctx == [display_columns |-> dyn.display_columns,
                spec_labels |-> spec_labels,
                sess |-> sess,
                user_identity |-> GetUserIdentity(sess, environ),
                timestamp |-> timestamp,
                has_row_counter |-> CheckColumnExists(tbl, RowCounterCol),
                rejects |-> rejects]
        rows_to_process == changes.modified_rows \o changes.new_rows
        start == [table |-> tbl, hashes |-> hashes, success_count |-> 0,
                  errors |-> <<>>, log |-> <<>>]
    IN IF rows_to_process = <<>>
       THEN start
       ELSE ProcessRows(start, rows_to_process, edited_df,
                        changes.new_rows, ctx)

\* ------------------------------------------------------------------ state
VARIABLES
    refSource,       \* the reference source: "up" or "down"
    catalog,         \* the label view: equipment type -> its row of labels
    equipment_type,  \* argument of the last direct label fetch (None: none)
    spec_labels,     \* the mapping that fetch returned
    raised,          \* whether that fetch raised to its caller
    table,           \* the equipment table of the working database
    df,              \* the row set handed to the applier or the reconciler
    eq_type,         \* the equipment type argument / selected type (or None)
    out,             \* the table the operation returned
    op,              \* the last operation: "none", "apply", "mixed", ...
    notices,         \* the notices the operation showed
    primary,         \* the type whose mapping the reconciler applied
    calls,           \* renames done in the operation: [eq, types of the rows]
    groups,          \* advanced search: equipment type -> the table shown
    columns,         \* the columns of the frame handed to the orderer
    ordered_columns, \* the column order the orderer returned
    session,         \* the manager's session state: name -> text
    environ,         \* the operating system's environment: name -> text
    label_view,      \* what the label view returns for the selected type
    edited_df,       \* the manager's grid as the user has edited it
    original_data_hash, \* row id -> hash of the row as loaded or saved
    clock,           \* saves made so far, which gives the timestamp
    success_count,   \* rows the last save counted as saved
    errors,          \* rows the last save reported as errors
    save_log,        \* per row the last save went through: what was done
    cache,           \* the label fetcher's cache: equipment type -> entry
    now,             \* seconds since the program started
    peer             \* a second browser session on the manager page

envVars == <<refSource, catalog>>

fetchVars == <<equipment_type, spec_labels, raised>>

viewVars == <<table, df, eq_type, out, op, notices, primary, calls, groups>>

orderVars == <<columns, ordered_columns>>

managerEnv == <<session, environ, label_view>>

managerVars == <<edited_df, original_data_hash, clock,
                 success_count, errors, save_log>>

cacheVars == <<cache, now>>

vars == <<refSource, catalog, equipment_type, spec_labels, raised,
          table, df, eq_type, out, op, notices, primary, calls, groups,
          columns, ordered_columns, session, environ, label_view,
          edited_df, original_data_hash, clock, success_count,
          errors, save_log,
         cache, now, peer>>

\* No fetch made yet.
NoFetch ==
    /\ equipment_type = None
    /\ spec_labels = EmptyMapping
    /\ raised = FALSE

\* No column order asked for yet.
NoOrder ==
    /\ columns = <<>>
    /\ ordered_columns = <<>>

\* The fetcher's cache as the program starts: nothing cached.
NoCache ==
    /\ cache = <<>>
    /\ now = 0

\* A manager session that has not loaded anything.
ClosedSession ==
    [op |-> "none", edited_df |-> EmptyFrame, original_data_hash |-> <<>>,
     saved_at |-> 0, save_log |-> <<>>]

\* The manager page not opened yet.
NoManager ==
    /\ NoCache
    /\ peer = ClosedSession
    /\ session = <<>>
    /\ environ = <<>>
    /\ label_view = EmptyFrame
    /\ edited_df = EmptyFrame
    /\ original_data_hash = <<>>
    /\ clock = 0
    /\ success_count = 0
    /\ errors = <<>>
    /\ save_log = <<>>

\* No operation run yet.
NoView ==
    /\ eq_type = None
    /\ out = EmptyFrame
    /\ op = "none"
    /\ notices = {}
    /\ primary = None
    /\ calls = {}
    /\ groups = <<>>

\* The page is run again from the top for the next interaction: what the
\* previous run computed and showed is gone, the databases are as they were.
Rerun ==
    /\ op # "none"
    /\ df' = EmptyFrame
    /\ eq_type' = None
    /\ out' = EmptyFrame
    /\ op' = "none"
    /\ notices' = {}
    /\ primary' = None
    /\ calls' = {}
    /\ groups' = <<>>
    /\ UNCHANGED <<envVars, orderVars, managerEnv, cacheVars, peer, managerVars, fetchVars, table>>

\* ------------------------------------------- specification of the fetcher
\* Catalog values of one slot.
FetchValues ==
    { None, <<>>, <<" ">>, NULL, <<"n","u","l","l">>,
      <<"A">>, <<" ","A"," ">>, <<"A"," ","(","1",")">>, <<"B">> }

\* Rows of the view: it exposes the first k slot columns.
FetchRows ==
    UNION { [1..k -> FetchValues] : k \in {MaxSlot - 1, MaxSlot} }

Init ==
    /\ refSource \in {"up", "down"}
    /\ \E row \in FetchRows : catalog = (Baler :> row)
    /\ NoFetch
    /\ table = EmptyFrame
    /\ df = EmptyFrame
    /\ NoOrder
    /\ NoManager
    /\ NoView

\* A caller fetches the labels of equipment type t.
FetchLabels(t) ==
    LET r == GetSpecificationLabelsFromDb(refSource, catalog, t) IN
    /\ equipment_type' = t
    /\ spec_labels' = r.value
    /\ raised' = r.raised
    /\ UNCHANGED <<envVars, orderVars, managerEnv, cacheVars, peer, managerVars, viewVars>>

Next == \E t \in {Baler, Conveyor} : FetchLabels(t)

Spec == Init /\ [][Next]_vars

\* ------------------------------------------------- claims on the fetcher
\* The catalog row of the fetched type, and whether the last fetch read it.
Row == catalog[Baler]

FetchedRow == equipment_type = Baler /\ refSource = "up"

\* The label the returned mapping gives slot i.
LabelOf(i) == Lookup(spec_labels, SpecCol(i))

\* The labels the returned mapping gives the slots below i.
Earlier(i) ==
    { spec_labels[k].label :
        k \in { k \in DOMAIN spec_labels :
                  \E j \in 1..(i - 1) : spec_labels[k].col = SpecCol(j) } }

\* C1: whatever the catalog row holds (repeated labels, labels that already
\* look suffixed), the values of the mapping the fetch returns are pairwise
\* distinct.
C1_DistinctValues ==
    \A i, j \in DOMAIN spec_labels :
        spec_labels[i].label = spec_labels[j].label => i = j

\* A row with "A (1)" in front of a repeated "A" has been fetched.
C1_Witness ==
    /\ FetchedRow
    /\ Len(spec_labels) = 3
    /\ Row[1] = <<"A"," ","(","1",")">>
    /\ strip(Row[2]) = <<"A">>
    /\ strip(Row[3]) = <<"A">>

\* C2: a slot whose trimmed label L is already the label of a lower slot
\* gets "L (n)" with n the smallest positive integer for which "L (n)" is
\* not yet a value of the mapping; a slot whose L is not yet assigned (the
\* first slot carrying L) keeps L unsuffixed.
C2_SmallestSuffix ==
    FetchedRow =>
      \A i \in DOMAIN Row :
        SpecCol(i) \in Keys(spec_labels) =>
          LET L == strip(Row[i]) IN
          IF L \in Earlier(i)
          THEN \E n \in 1..MaxSlot :
                 /\ LabelOf(i) = Suffixed(L, n)
                 /\ Suffixed(L, n) \notin Earlier(i)
                 /\ \A m \in 1..(n - 1) : Suffixed(L, m) \in Earlier(i)
          ELSE LabelOf(i) = L

\* Slots 1 and 2 carry the same label: slot 1 keeps it and slot 2 gets
\* the suffix " (1)".
C2_Witness ==
    /\ FetchedRow
    /\ Row[1] = <<"A">>
    /\ Row[2] = <<"A">>
    /\ LabelOf(1) = <<"A">>
    /\ LabelOf(2) = <<"A"," ","(","1",")">>

\* C3 as stated: slot i is a key iff its catalog value is non-null,
\* non-empty after trimming and not exactly "NULL" after trimming (so that
\* "null" is kept), and the stored label is the trimmed value (suffixed as
\* C2 says when a lower slot already has it).
C3_ExactNullOnly ==
    FetchedRow =>
      \A i \in 1..MaxSlot :
        /\ SpecCol(i) \in Keys(spec_labels) <=>
             /\ i \in DOMAIN Row
             /\ Row[i] # None
             /\ strip(Row[i]) # <<>>
             /\ strip(Row[i]) # NULL
        /\ SpecCol(i) \in Keys(spec_labels) =>
             \/ LabelOf(i) = strip(Row[i])
             \/ strip(Row[i]) \in Earlier(i)

\* C3, amended: slot i is a key iff its catalog value is non-null,
\* non-empty after trimming and not "NULL" in any letter case after
\* trimming; the stored label is the trimmed value (suffixed as C2 says
\* when a lower slot already has it).
C3_KeyIffValidLabel ==
    FetchedRow =>
      \A i \in 1..MaxSlot :
        /\ SpecCol(i) \in Keys(spec_labels) <=>
             /\ i \in DOMAIN Row
             /\ Row[i] # None
             /\ strip(Row[i]) # <<>>
             /\ upper(strip(Row[i])) # NULL
        /\ SpecCol(i) \in Keys(spec_labels) =>
             \/ LabelOf(i) = strip(Row[i])
             \/ strip(Row[i]) \in Earlier(i)

\* A fetched row holding "null", which is left out, and " A ", which is
\* kept trimmed.
C3_Witness ==
    /\ FetchedRow
    /\ Row[1] = <<"n","u","l","l">>
    /\ SpecCol(1) \notin Keys(spec_labels)
    /\ Row[2] = <<" ","A"," ">>
    /\ LabelOf(2) = <<"A">>

\* C4: when the reference query fails, or the type has no catalog row, the
\* fetch returns the empty mapping and does not raise to its caller.
C4_EmptyOnFailure ==
    (equipment_type # None
       /\ (refSource = "down" \/ equipment_type \notin DOMAIN catalog))
    => (spec_labels = EmptyMapping /\ ~raised)

\* The query failed for a type whose catalog row has labels.
C4_Witness ==
    /\ equipment_type = Baler
    /\ refSource = "down"
    /\ \E i \in DOMAIN Row : LabelIncluded(Row[i])

\* ------------------------------------------- specification of the applier
\* Catalog values of one slot: no label, a plain label (twice the same in a
\* row collides), a label equal to a business column's name, and a label
\* that itself starts with 'Specifications'.
ApplyValues ==
    { None, <<"W">>, ModelCol, SpecPrefix \o <<" ","X">> }

\* The catalog row of the second cataloged type: slot i is labelled "Xi".
XLRow == [i \in 1..MaxSlot |-> <<"X">> \o str(i)]

InitApply ==
    /\ refSource \in {"up", "down"}
    /\ \E row \in [1..MaxSlot -> ApplyValues] :
          catalog = (Baler :> row) @@ (BalerXL :> XLRow)
    /\ NoFetch
    /\ \E n \in 0..MaxRows : table = TableOf([r \in 1..n |-> Baler])
    /\ df = EmptyFrame
    /\ NoOrder
    /\ NoManager
    /\ NoView

\* A caller applies the labels of equipment type eq (or of none) to the
\* rows of the table.
ApplyLabels(eq) ==
    LET r == ApplyDynamicSpecificationLabels(refSource, catalog, table, eq)
    IN
    /\ op = "none"
    /\ df' = table
    /\ eq_type' = eq
    /\ out' = r.out
    /\ op' = "apply"
    /\ calls' = IF r.renamed
                THEN {[eq |-> eq, types |-> TypesIn(table)]}
                ELSE {}
    /\ notices' = {}
    /\ primary' = None
    /\ groups' = <<>>
    /\ UNCHANGED <<envVars, orderVars, managerEnv, cacheVars, peer, managerVars, fetchVars, table>>

NextApply ==
    \/ \E eq \in {None, <<>>, Baler, BalerXL, Conveyor} : ApplyLabels(eq)
    \/ Rerun

SpecApply == InitApply /\ [][NextApply]_vars

\* --------------------------------------- specification of the search paths
\* Catalog values of one slot of the first cataloged type.
SearchValues == { None, <<"W">> }

\* Equipment types of the records of the table (None: no type recorded).
RowTypes == { Baler, BalerXL, Conveyor, None }

InitSearch ==
    /\ refSource = "up"
    /\ \E row \in [1..MaxSlot -> SearchValues] :
          catalog = (Baler :> row) @@ (BalerXL :> XLRow)
    /\ NoFetch
    /\ \E n \in 0..MaxRows : \E types \in [1..n -> RowTypes] :
          table = TableOf(types)
    /\ df = EmptyFrame
    /\ NoOrder
    /\ NoManager
    /\ NoView

\* A caller hands the whole table to the mixed-type reconciler.
ReconcileMixed ==
    LET m == ApplyDynamicSpecificationLabelsToMixedData(refSource, catalog,
                                                        table)
    IN /\ op = "none"
       /\ df' = table
       /\ eq_type' = None
       /\ out' = m.out
       /\ op' = "mixed"
       /\ notices' = m.notices
       /\ primary' = m.primary
       /\ calls' = m.calls
       /\ groups' = <<>>
       /\ UNCHANGED <<envVars, orderVars, managerEnv, cacheVars, peer, managerVars, fetchVars, table>>

\* The Search button of the quick search (lines 639-645) with a term that
\* every record matches; dbOk = FALSE: the query failed.
QuickSearch(dbOk) ==
    LET results == IF dbOk THEN table ELSE EmptyFrame
        m == ApplyDynamicSpecificationLabelsToMixedData(refSource, catalog,
                                                        results)
    IN /\ op = "none"
       /\ df' = results
       /\ eq_type' = None
       /\ out' = m.out
       /\ op' = "quick"
       /\ notices' = m.notices
                       \cup (IF dbOk THEN {} ELSE {"search_failed"})
                       \cup (IF IsEmpty(m.out) THEN {"none_found"} ELSE {})
       /\ primary' = m.primary
       /\ calls' = m.calls
       /\ groups' = <<>>
       /\ UNCHANGED <<envVars, orderVars, managerEnv, cacheVars, peer, managerVars, fetchVars, table>>

\* _execute_advanced_search with the selected equipment type eq ('' when
\* none is selected) and, when others is TRUE, further criteria.
ExecuteAdvancedSearch(eq, others, dbOk) ==
    /\ op = "none"
    /\ eq_type' = eq
    /\ op' = "advanced"
    /\ IF ~(Truthy(eq) \/ others)
       THEN /\ notices' = {"no_criteria"}
            /\ df' = EmptyFrame
            /\ out' = EmptyFrame
            /\ primary' = None
            /\ calls' = {}
            /\ groups' = <<>>
       ELSE
         LET results == PerformAdvancedSearch(table, eq, others, dbOk)
             typed == ApplyDynamicSpecificationLabels(refSource, catalog,
                                                      results, eq)
             lab == IF Truthy(eq)
                    THEN [out |-> typed.out, notices |-> {},
                          primary |-> None,
                          calls |-> CallsOf(typed, results, eq)]
                    ELSE ApplyDynamicSpecificationLabelsToMixedData(
                             refSource, catalog, results)
             shown == DisplayEquipmentWiseResults(refSource, catalog,
                                                  lab.out)
         IN /\ df' = results
            /\ out' = lab.out
            /\ notices' = lab.notices \cup shown.notices
                            \cup (IF dbOk THEN {} ELSE {"search_failed"})
            /\ primary' = lab.primary
            /\ calls' = lab.calls \cup shown.calls
            /\ groups' = shown.groups
    /\ UNCHANGED <<envVars, orderVars, managerEnv, cacheVars, peer, managerVars, fetchVars, table>>

NextSearch ==
    \/ ReconcileMixed
    \/ \E dbOk \in BOOLEAN : QuickSearch(dbOk)
    \/ \E eq \in {<<>>, Baler, BalerXL, Conveyor} :
         \E others \in BOOLEAN : \E dbOk \in BOOLEAN :
            ExecuteAdvancedSearch(eq, others, dbOk)
    \/ Rerun

SpecSearch == InitSearch /\ [][NextSearch]_vars

\* ------------------------------------------------- claims on the applier
\* The mapping of the equipment type argument eq as the catalog stands.
MappingOf(eq) ==
    IF Truthy(eq)
    THEN GetSpecificationLabelsFromDb(refSource, catalog, eq).value
    ELSE EmptyMapping

\* The columns of a table in order, each with its name and its values.
ColumnsOf(d) ==
    [k \in 1..Len(d.cols) |->
        [name |-> d.cols[k],
         values |-> [r \in 1..Len(d.rows) |-> d.rows[r][k]]]]

\* The columns of a table that are not slot columns.
NonSlotColumnsOf(d) ==
    SelectSeq(ColumnsOf(d), LAMBDA c : ~startswith(c.name, SpecPrefix))

HasDuplicates(names) ==
    \E i, j \in DOMAIN names : i # j /\ names[i] = names[j]

\* C5: for every row set, one with zero rows included, and every equipment
\* type argument (cataloged, un-cataloged, none), the table the applier
\* returns has no column whose name begins with 'Specifications'.
C5_NoSlotPrefixedColumn ==
    op = "apply" =>
      \A i \in DOMAIN out.cols : ~startswith(out.cols[i], SpecPrefix)

\* C6: for every slot of a non-empty mapping whose column is in the input
\* rows, the applier's output has a column named by the slot's label that
\* holds the slot's values in every row, whatever the label text is.
\* (Stated for row sets with at least one row.)
C6_LabeledSlotKept ==
    (op = "apply" /\ df.rows # <<>>) =>
      LET m == MappingOf(eq_type) IN
      \A e \in DOMAIN m :
        m[e].col \in Range(df.cols) =>
          \E k \in DOMAIN out.cols :
            /\ out.cols[k] = m[e].label
            /\ \A r \in DOMAIN df.rows :
                 out.rows[r][k] = df.rows[r][ColIndex(df, m[e].col)]

\* C7: with an empty mapping the applier removes every slot column; with
\* any mapping the non-slot columns are in the output with the same names,
\* values and relative order as in the input.
C7_NonSlotColumnsUnchanged ==
    op = "apply" =>
      /\ MappingOf(eq_type) = EmptyMapping =>
           \A i \in 1..MaxSlot : SpecCol(i) \notin Range(out.cols)
      /\ SelectSeq(ColumnsOf(out),
                   LAMBDA c : c \in Range(NonSlotColumnsOf(df)))
           = NonSlotColumnsOf(df)

\* C8: when the rename would give two columns the same name the applier
\* falls back to dropping all slot columns, so the table it returns never
\* has two columns with the same name.
C8_NoDuplicateColumnNames ==
    op = "apply" =>
      /\ ~HasDuplicates(out.cols)
      /\ (df.rows # <<>> /\ HasDuplicates(Rename(df, MappingOf(eq_type)).cols))
           => ColumnsOf(out) = NonSlotColumnsOf(df)

\* ------------------------------------------ claims on the search paths
\* The operation handed its row set df to the mixed-type reconciler.
Reconciled ==
    \/ op \in {"mixed", "quick"}
    \/ op = "advanced" /\ ~Truthy(eq_type) /\ "no_criteria" \notin notices

\* Position of the first row of df with equipment type t.
FirstRowOf(t) ==
    CHOOSE r \in DOMAIN df.rows :
        /\ ColumnValues(df, EquipmentTypeCol)[r] = t
        /\ \A q \in 1..(r - 1) : ColumnValues(df, EquipmentTypeCol)[q] # t

C10_MixedNoticeShown ==
    \A c \in calls :
        Cardinality(c.types) > 1 => "mixed_types" \in notices

\* ------------------------------------------- specification of the orderer
\* Longest column list handed to the orderer.
MaxCols == 4

\* A label a catalog row gives a slot.
WidthLabel == <<"W","i","d","t","h">>

\* Column names a labelled frame can carry: business columns, slot columns
\* that were not stripped, a label, and audit columns.
OrderNames ==
    { EquipmentTypeCol, ModelCol, SpecCol(2), SpecCol(10), WidthLabel,
      NotesCol, EquipmentKeyCol }

\* The lists of distinct names of OrderNames, up to MaxCols long.
ColumnLists ==
    UNION { { s \in [1..n -> OrderNames] :
                \A i, j \in 1..n : i # j => s[i] # s[j] } : n \in 0..MaxCols }

InitOrder ==
    /\ refSource = "up"
    /\ catalog = (Baler :> XLRow)
    /\ NoFetch
    /\ table = EmptyFrame
    /\ df = EmptyFrame
    /\ NoManager
    /\ NoView
    /\ columns \in ColumnLists
    /\ ordered_columns = <<>>

\* A caller asks for the column order of a frame with these columns.
OrderColumns ==
    /\ op = "none"
    /\ ordered_columns' = GetOrderedColumnsForEditing(columns)
    /\ op' = "order"
    /\ UNCHANGED <<envVars, managerEnv, cacheVars, peer, managerVars, fetchVars, table, df, eq_type, out, notices,
                   primary, calls, groups, columns>>

\* A caller asks for the column order of the frame it already put in order.
ReorderColumns ==
    /\ op = "order"
    /\ ordered_columns' = GetOrderedColumnsForEditing(ordered_columns)
    /\ op' = "reorder"
    /\ UNCHANGED <<envVars, managerEnv, cacheVars, peer, managerVars, fetchVars, table, df, eq_type, out, notices,
                   primary, calls, groups, columns>>

NextOrder ==
    \/ OrderColumns
    \/ ReorderColumns

SpecOrder == InitOrder /\ [][NextOrder]_vars

\* ------------------------------------------------- claims on the orderer
\* The place of a name in a list that holds it.
IndexIn(list, col) == CHOOSE i \in DOMAIN list : list[i] = col

\* The bucket the specification gives a column: 1 business, 2
\* specification, 3 audit/system.
BucketOf(col) ==
    IF col \in Range(priority_columns) THEN 1
    ELSE IF col \in Range(system_column_names) THEN 3
    ELSE 2

\* The columns of the specification bucket, in the returned order.
SpecPart == SelectSeq(ordered_columns, LAMBDA col : BucketOf(col) = 2)

\* Whether a name is 'Specifications' followed by digits, and its number.
IsSlotName(col) ==
    /\ startswith(col, SpecPrefix)
    /\ isdigit(SubSeq(col, Len(SpecPrefix) + 1, Len(col)))

SlotNumber(col) == int(SubSeq(col, Len(SpecPrefix) + 1, Len(col)))

\* The lists with the same names as s, in every order.
Perms(s) ==
    { [i \in DOMAIN s |-> s[f[i]]] : f \in Permutations(DOMAIN s) }

\* C11: the returned order is the business columns present in their
\* hardcoded relative order, then the specification columns, then the
\* audit/system columns present in the hardcoded sequence Notes,
\* EquipmentKey, RecordHistory, RowCounter, MachineInfoID,
\* UploadsPendingID, HashedSerialNumber.
C11_BucketsInHardcodedOrder ==
    op = "order" =>
        \A i, j \in DOMAIN ordered_columns :
            LET a == ordered_columns[i]
                b == ordered_columns[j]
            IN i < j =>
                /\ BucketOf(a) <= BucketOf(b)
                /\ (BucketOf(a) = 1 /\ BucketOf(b) = 1) =>
                      IndexIn(priority_columns, a)
                          < IndexIn(priority_columns, b)
                /\ (BucketOf(a) = 3 /\ BucketOf(b) = 3) =>
                      IndexIn(system_column_names, a)
                          < IndexIn(system_column_names, b)

\* C12: within the specification bucket every column named
\* 'Specifications' followed by digits comes first, in ascending numeric
\* order, and every other column comes after them in alphabetical order.
C12_SlotsNumericThenAlphabetical ==
    op = "order" =>
        \A i, j \in DOMAIN SpecPart :
            LET a == SpecPart[i]
                b == SpecPart[j]
            IN i < j =>
                /\ IsSlotName(b) => IsSlotName(a)
                /\ (IsSlotName(a) /\ IsSlotName(b)) =>
                      SlotNumber(a) < SlotNumber(b)
                /\ (~IsSlotName(a) /\ ~IsSlotName(b)) => TextLess(a, b)

\* C13: for distinct column names the order returned is the same for
\* every permutation of the input, ordering the returned list again
\* returns it unchanged, and the returned list holds each input column
\* exactly once and no other name.
C13_OrderOfTheNameSetOnly ==
    op \in {"order", "reorder"} =>
        /\ \A p \in Perms(columns) :
              GetOrderedColumnsForEditing(p) = ordered_columns
        /\ Len(ordered_columns) = Len(columns)
        /\ Range(ordered_columns) = Range(columns)

\* A list of all three buckets, not in the returned order, was ordered and
\* its order asked for again.
C13_Witness ==
    /\ op = "reorder"
    /\ ordered_columns # columns
    /\ {1, 2, 3} \subseteq { BucketOf(columns[i]) : i \in DOMAIN columns }
    /\ Len(columns) = Cardinality(Range(columns))

\* ------------------------------------------- specification of the manager
\* Short texts.
Txt(letter, n) == <<letter>> \o str(n)

\* The sessions: every fixed field filled in, or (one filled field is
\* enough to go on) only some, the others empty or blank. The name typed
\* into the sidebar is held under 'username' and is never blank when a
\* page runs; no code stores 'EngineerName'.
SessionFilled ==
    (CustomerIDCol :> Txt("C", 1)) @@ (CustomerNameCol :> Txt("N", 1))
        @@ (CustomerLocationCol :> Txt("L", 1))
        @@ (ActiveStatusCol :> Txt("A", 1))
        @@ (ManufacturerCol :> Txt("M", 1))
        @@ (ManufacturerProjectIDCol :> Txt("J", 1))
        @@ (ParentProjectIDCol :> Txt("P", 1))
        @@ (<<"u","s","e","r","n","a","m","e">> :> Txt("E", 1))
        @@ (<<"s","e","l","e","c","t","e","d","_","e","q","u","i","p","m","e","n","t","_","t","y","p","e">> :> Baler)

SessionPartial ==
    (CustomerIDCol :> <<>>) @@ (CustomerNameCol :> Txt("N", 1))
        @@ (CustomerLocationCol :> <<" ">>)
        @@ (ActiveStatusCol :> <<>>)
        @@ (ManufacturerCol :> <<>>)
        @@ (ManufacturerProjectIDCol :> <<>>)
        @@ (ParentProjectIDCol :> <<>>)
        @@ (<<"u","s","e","r","n","a","m","e">> :> Txt("E", 1))
        @@ (<<"s","e","l","e","c","t","e","d","_","e","q","u","i","p","m","e","n","t","_","t","y","p","e">> :> Baler)

\* The label view in the shape the search page reads: one row per type,
\* a column per slot, and none of the columns the manager looks for.
WideView ==
    [cols |-> <<EquipmentTypeCol>> \o SlotColumns,
     rows |-> << <<Baler>> \o XLRow >>]

\* The label view with a row per label, under the column 'Label'.
LongView(labels) ==
    [cols |-> <<EquipmentTypeCol, <<"L","a","b","e","l">>>>,
     rows |-> [i \in DOMAIN labels |-> <<Baler, labels[i]>>]]

\* A label per slot, all distinct; and the same with the first two alike.
DistinctLabels == [i \in 1..MaxSlot |-> Txt("X", i)]

RepeatedLabels ==
    [i \in 1..MaxSlot |-> IF i <= 2 THEN Txt("X", 1) ELSE Txt("X", i)]

\* A record of the equipment table, the n-th, with the identifiers of a
\* kind: 1 has SerialNumber, RowCounter and MachineInfoID, 2 the last two,
\* 3 the last only, 4 and 5 none. Records with a serial number are another
\* customer's; records of kind 5 are all at the same customer position.
RecordOf(n, kind) ==
    [k \in DOMAIN SQL_COLUMN_ORDER |->
        LET c == SQL_COLUMN_ORDER[k] IN
        IF c = SerialNumberCol
        THEN (IF kind = 1 THEN Txt("S", n) ELSE None)
        ELSE IF c = RowCounterCol
        THEN (IF kind <= 2 THEN str(n) ELSE None)
        ELSE IF c = MachineInfoIDCol
        THEN (IF kind <= 3 THEN Txt("I", n) ELSE None)
        ELSE IF c = EquipmentTypeCol THEN Baler
        ELSE IF c = CustomerIDCol
        THEN (IF kind = 1 THEN Txt("C", 0) ELSE Txt("C", 1))
        ELSE IF c = CustomerNameCol
        THEN (IF kind = 1 THEN Txt("N", 0) ELSE Txt("N", 1))
        ELSE IF c = CustomerPositionNoCol
        THEN (IF kind = 5 THEN Txt("Q", 0) ELSE Txt("Q", n))
        ELSE IF c = RecordHistoryCol THEN Txt("H", n)
        ELSE IF c \in Range(SlotColumns) \/ c = ModelCol THEN Cell(n, c)
        ELSE None]

\* The tables the manager starts from: empty, a record with a serial
\* number, that and a record of another kind, or two records without
\* identifiers at one customer position.
ManagerTables ==
    LET ManagerTable(kinds) ==
            [cols |-> SQL_COLUMN_ORDER,
             rows |-> [n \in DOMAIN kinds |-> RecordOf(n, kinds[n])]]
    IN {ManagerTable(<<>>)}
          \cup {ManagerTable(<<1>>)}
          \cup { ManagerTable(<<1, k>>) : k \in 2..4 }
          \cup {ManagerTable(<<5, 5>>)}

InitSave ==
    /\ catalog = (Baler :> XLRow)
    /\ \/ refSource = "up"
          /\ label_view \in { WideView, LongView(DistinctLabels),
                              LongView(RepeatedLabels) }
       \/ refSource = "down" /\ label_view = LongView(DistinctLabels)
    /\ session \in {SessionFilled, SessionPartial}
    /\ environ = (<<"U","S","E","R","N","A","M","E">> :> <<>>) @@ (<<"U","S","E","R">> :> Txt("U", 1))
    /\ table \in ManagerTables
    /\ NoCache
    /\ peer = ClosedSession
    /\ NoFetch
    /\ NoOrder
    /\ df = EmptyFrame
    /\ NoView
    /\ edited_df = EmptyFrame
    /\ original_data_hash = <<>>
    /\ clock = 0
    /\ success_count = 0
    /\ errors = <<>>
    /\ save_log = <<>>

\* The page is rendered: the records of the selected type are loaded, their
\* hashes stored, and the grid is built.
RenderDataGrid ==
    LET existing_df ==
            LoadExistingEquipmentData(table,
                                      session[<<"s","e","l","e","c","t","e","d","_","e","q","u","i","p","m","e","n","t","_","t","y","p","e">>])
    IN
    /\ op = "none"
    /\ df' = existing_df
    /\ original_data_hash' =
           StoreHashes(original_data_hash, existing_df,
                       Len(existing_df.rows))
    /\ edited_df' = BuildCompleteGrid(refSource, label_view, session,
                                      existing_df)
    /\ op' = "grid"
    /\ UNCHANGED <<envVars, orderVars, managerEnv, cacheVars, peer, fetchVars, table, eq_type,
                   out, notices, primary, calls, groups, clock,
                   success_count, errors, save_log>>

\* What the user types into a cell: the column and the text.
CellEdits ==
    { [col |-> SerialNumberCol, val |-> Txt("S", 1)],
      [col |-> SerialNumberCol, val |-> Txt("S", 9)],
      [col |-> CustomerIDCol, val |-> Txt("C", 9)],
      [col |-> EquipmentTypeCol, val |-> <<>>],
      [col |-> RecordHistoryCol, val |-> <<>>],
      [col |-> ModelCol, val |-> <<" ">>],
      [col |-> ModelCol, val |-> None] }

\* The user edits a cell of the grid before saving: one of CellEdits, or a
\* text in the first specification column.
EditCell(r, col, val) ==
    /\ op = "grid"
    /\ r \in DOMAIN edited_df.rows
    /\ col \in DOMAIN edited_df.rows[r]
    /\ edited_df.rows[r][col] # val
    /\ edited_df' = [edited_df EXCEPT !.rows[r][col] = val]
    /\ op' = "edited"
    /\ UNCHANGED <<envVars, orderVars, managerEnv, cacheVars, peer, fetchVars, table, df,
                   eq_type, out, notices, primary, calls, groups,
                   original_data_hash, clock, success_count, errors,
                   save_log>>

\* The user presses Save Changes; the database refuses the statements of
\* kind stmt for the rows bad.
SaveChanges(bad, stmt) ==
    /\ op \in {"grid", "edited"}
    /\ \E r \in { SaveChangesOnly(table, original_data_hash, edited_df,
                                   refSource, label_view, session, environ,
                                   Txt("T", clock + 1), bad \X {stmt}) } :
          /\ table' = r.table
          /\ original_data_hash' = r.hashes
          /\ success_count' = r.success_count
          /\ errors' = r.errors
          /\ save_log' = r.log
    /\ clock' = clock + 1
    /\ op' = "save"
    /\ UNCHANGED <<envVars, orderVars, managerEnv, cacheVars, peer, fetchVars, df, eq_type,
                   out, notices, primary, calls, groups, edited_df>>

NextSave ==
    \/ RenderDataGrid
    \/ \E r \in 1..(MaxRows + 2 * NewRows) :
          \/ \E e \in CellEdits : EditCell(r, e.col, e.val)
          \/ EditCell(r, edited_df.cols[Len(base_columns) + 3], <<"v">>)
    \/ \E bad \in SUBSET (DOMAIN edited_df.rows), stmt \in {"INSERT", "UPDATE"} :
          SaveChanges(bad, stmt)

SpecSave == InitSave /\ [][NextSave]_vars

\* ------------------------------------------------- claims on the manager
\* The rows the last save went through, and those it saved.
Entries == { save_log[i] : i \in DOMAIN save_log }

SavedEntries == { e \in Entries : e.saved }

\* The statements the last save handed to the database.
Statements ==
    UNION { { e.statements[i] : i \in DOMAIN e.statements } : e \in Entries }

\* The mapping the grid was built with: label -> slot column read.
GridMapping == FetchSpecificationLabels(refSource, label_view)

\* The value of a column in a row of a frame.
Field(frame, r, c) == frame.rows[r][ColIndex(frame, c)]

\* The row of the table an INSERT of these values leaves.
RowOf(params) ==
    [k \in DOMAIN table.cols |->
        IF table.cols[k] \in DOMAIN params
        THEN params[table.cols[k]] ELSE None]

\* Whether p is a prefix of s.
IsPrefix(p, s) == Len(p) <= Len(s) /\ SubSeq(s, 1, Len(p)) = p

\* C14: for every label the grid shows, the slot column a save writes the
\* label's cell to is the slot column the grid read the cell from, for
\* every label list, also one naming two slots alike.
C14_WrittenToTheSlotRead ==
    op = "save" =>
        \A e \in Entries :
            \A i \in DOMAIN GridMapping :
                Get(e.record, GridMapping[i].value)
                    = Normalize(edited_df.rows[e.row][GridMapping[i].key])

\* C15: in every record a save writes, each of the seven fixed fields has
\* the session's value, whatever the grid row holds in that column.
C15_FixedFieldsFromSession ==
    op = "save" =>
        /\ \A s \in Statements :
              \A i \in DOMAIN FIXED_FIELDS :
                  /\ FIXED_FIELDS[i] \in DOMAIN s.params
                  /\ s.params[FIXED_FIELDS[i]] = session[FIXED_FIELDS[i]]
        /\ \A e \in SavedEntries :
              /\ e.written # {}
              /\ \A row \in e.written :
                    \A i \in DOMAIN FIXED_FIELDS :
                        row[ColIndex(table, FIXED_FIELDS[i])]
                            = session[FIXED_FIELDS[i]]

\* A new row and a modified row were saved whose grid cells for CustomerID
\* differ from the session's value.
C15_Witness ==
    /\ op = "save"
    /\ \E e \in SavedEntries :
          /\ e.is_new
          /\ edited_df.rows[e.row][CustomerIDCol] # session[CustomerIDCol]
    /\ \E e \in SavedEntries :
          /\ ~e.is_new
          /\ edited_df.rows[e.row][CustomerIDCol] # session[CustomerIDCol]

\* The history a record had when the grid was loaded ('' for none).
PriorHistory(r) ==
    IF Field(df, r, RecordHistoryCol) = None THEN <<>>
    ELSE Field(df, r, RecordHistoryCol)

\* C16: the RecordHistory a save writes to a record is the record's prior
\* history, a newline and one entry '[timestamp] Modified by: <user>' (the
\* entry alone when there was no history; 'Created by' for a new row), so
\* the history persisted before is a prefix of the value written.
C16_HistoryOnlyAppended ==
    op = "save" =>
        \A e \in SavedEntries :
            LET entry == EditInfo(Txt("T", clock), e.is_new,
                                  GetUserIdentity(session, environ))
            IN \A i \in DOMAIN e.statements :
                  LET s == e.statements[i] IN
                  IF s.stmt = "UPDATE"
                  THEN \A r \in Matching(df, s.where) :
                          /\ IsPrefix(PriorHistory(r),
                                      s.params[RecordHistoryCol])
                          /\ s.params[RecordHistoryCol] =
                                IF PriorHistory(r) = <<>> THEN entry
                                ELSE PriorHistory(r) \o <<"\n">> \o entry
                  ELSE e.is_new => s.params[RecordHistoryCol] = entry

\* C17: every value a save hands to INSERT or UPDATE is NULL or a text
\* that is not blank, in every column, the fixed fields included.
C17_NullOrNonBlankText ==
    op = "save" =>
        \A s \in Statements :
            \A c \in DOMAIN s.params :
                s.params[c] = None \/ strip(s.params[c]) # <<>>

\* C18: a save keys a row by the first of SerialNumber, RowCounter,
\* MachineInfoID and the composite that the record has; it attempts an
\* UPDATE whenever there is a key, and INSERTs without one only when no
\* key can be formed.
C18_UpdateWheneverKeyed ==
    op = "save" =>
        \A e \in Entries :
            /\ e.key_type =
                  IF IsTruthy(Get(e.record, SerialNumberCol))
                  THEN "SerialNumber"
                  ELSE IF IsTruthy(Get(e.record, RowCounterCol))
                  THEN "RowCounter"
                  ELSE IF IsTruthy(Get(e.record, MachineInfoIDCol))
                  THEN "MachineInfoID"
                  ELSE IF \E f \in { CustomerIDCol, CustomerPositionNoCol,
                                     EquipmentTypeCol } :
                             IsTruthy(Get(e.record, f))
                  THEN "COMPOSITE"
                  ELSE "NONE"
            /\ e.statements[1].stmt =
                  IF e.key_type = "NONE" THEN "INSERT" ELSE "UPDATE"

\* The entries of modified rows whose UPDATE found no record.
FoundNone ==
    { e \in Entries :
        /\ ~e.is_new
        /\ e.statements[1].stmt = "UPDATE"
        /\ e.statements[1].ok
        /\ e.statements[1].rowcount = 0 }

\* C19: when the UPDATE of a modified row finds no record, the same record
\* is INSERTed in the same transaction and the row counts as saved; when
\* that INSERT fails nothing of the row is persisted and the row is
\* reported as an error.
C19_InsertWhenNoneUpdated ==
    op = "save" =>
        \A e \in FoundNone :
            /\ Len(e.statements) = 2
            /\ e.statements[2].stmt = "INSERT"
            /\ \A c \in DOMAIN e.record :
                  c # RowCounterCol =>
                      e.statements[2].params[c] = e.record[c]
            /\ e.saved =>
                  /\ e.written = {RowOf(e.statements[2].params)}
                  /\ e.row \notin Range(errors)
            /\ ~e.saved =>
                  /\ e.written = {}
                  /\ e.row \in Range(errors)
            /\ success_count = Cardinality(SavedEntries)
            /\ Len(table.rows) =
                  Len(df.rows)
                    + Cardinality({ i \in DOMAIN save_log :
                          /\ save_log[i].saved
                          /\ save_log[i].statements[
                                Len(save_log[i].statements)].stmt
                                  = "INSERT" })

\* The UPDATE of a modified row found no record and the record was
\* inserted.
C19_Witness ==
    /\ op = "save"
    /\ \E e \in FoundNone : e.saved

\* The changes of the grid against the hashes of the rows as loaded.
ChangesAtSave ==
    DetectChanges(edited_df, StoreHashes(<<>>, df, Len(df.rows)))

\* C20: in a batch save every changed row is written whether or not
\* another row, earlier or later, fails: the rows whose own write succeeds
\* are persisted and no others, success_count is their number, and errors
\* names each failed row once.
C20_RowsSavedIndependently ==
    op = "save" =>
        /\ [i \in DOMAIN save_log |-> save_log[i].row]
              = ChangesAtSave.modified_rows \o ChangesAtSave.new_rows
        /\ success_count = Cardinality(SavedEntries)
        /\ errors = [i \in DOMAIN
                        SelectSeq(save_log, LAMBDA e : ~e.saved) |->
                          SelectSeq(save_log, LAMBDA e : ~e.saved)[i].row]
        /\ \A e \in Entries :
              LET s == e.statements[Len(e.statements)] IN
              IF ~e.saved THEN e.written = {}
              ELSE /\ e.written # {}
                   /\ \A row \in e.written :
                         \A c \in DOMAIN s.params :
                             row[ColIndex(table, c)] = s.params[c]
        /\ Len(table.rows) =
              Len(df.rows)
                + Cardinality({ i \in DOMAIN save_log :
                      /\ save_log[i].saved
                      /\ save_log[i].statements[
                            Len(save_log[i].statements)].stmt = "INSERT" })

\* Three rows were changed; the second failed and the first and the third
\* were saved.
C20_Witness ==
    /\ op = "save"
    /\ Len(save_log) >= 3
    /\ ~save_log[2].saved
    /\ save_log[1].saved
    /\ save_log[3].saved
    /\ errors = <<save_log[2].row>>
    /\ success_count = Len(save_log) - 1

\* The grid as the page built it from the loaded records, before any edit.
BuiltGrid == BuildCompleteGrid(refSource, label_view, session, df)

\* The rows of the grid the user typed nothing into.
Untouched ==
    { r \in DOMAIN edited_df.rows : edited_df.rows[r] = BuiltGrid.rows[r] }

\* C21: a grid row the user entered nothing into is never written by a
\* save: the rows offered for new entries, prefilled with the session's
\* fixed fields and the selected type, give no INSERT while untouched.
C21_UntouchedNewRowsNotWritten ==
    op = "save" =>
        \A e \in Entries : e.is_new => e.row \notin Untouched

\* C23: when the selected type has no label mapping, the grid has no
\* specification column: no column of the grid is named Specifications{i}.
C23_NoSlotColumnsWithoutMapping ==
    (op \in {"grid", "edited", "save"} /\ GridMapping = <<>>) =>
        \A k \in DOMAIN edited_df.cols :
            edited_df.cols[k] \notin Range(SlotColumns)

\* C24: a loaded record whose grid cells the user did not change is not
\* written by a save, with slot columns and with labels in the grid.
C24_UnchangedRecordsNotWritten ==
    op = "save" =>
        \A e \in Entries : ~e.is_new => e.row \notin Untouched

\* C26: the identity in the history entry a save writes is the name the
\* user typed into the sidebar login field of the session.
C26_HistoryNamesTheLogin ==
    op = "save" =>
        \A s \in Statements :
            LET h == s.params[RecordHistoryCol]
                by == <<" ","b","y",":"," ">> \o session[<<"u","s","e","r","n","a","m","e">>]
            IN /\ Len(h) >= Len(by)
               /\ SubSeq(h, Len(h) - Len(by) + 1, Len(h)) = by

\* The columns of the table a save of grid row r may change: those of the
\* cells edited (for a label, the slot it was read from and the slot it is
\* written to), RecordHistory and the fixed fields.
MayChange(r) ==
    LET edited == { c \in DOMAIN edited_df.rows[r] :
                      edited_df.rows[r][c] # BuiltGrid.rows[r][c] }
        labels == DictKeys(GridMapping)
    IN (edited \ Range(labels))
          \cup { GetItem(GridMapping, c) : c \in edited \cap Range(labels) }
          \cup { SpecCol(IndexOf(labels, c)) :
                   c \in edited \cap Range(labels) }
          \cup {RecordHistoryCol} \cup Range(FIXED_FIELDS)

\* Every modified row of the save is keyed to the record it was loaded
\* from and to no other.
KeyedByTheirOwn ==
    \A e \in Entries :
        ~e.is_new => /\ e.statements[1].stmt = "UPDATE"
                     /\ Matching(df, e.statements[1].where) = {e.row}

\* C27: the UPDATE of a modified record sets no column but those edited,
\* RecordHistory and the fixed fields to another value than it had; a slot
\* the grid could not show is not overwritten with NULL.
C27_OtherColumnsKept ==
    (op = "save" /\ KeyedByTheirOwn) =>
        \A e \in SavedEntries :
            LET s == e.statements[1] IN
            (~e.is_new /\ s.stmt = "UPDATE") =>
                \A m \in DOMAIN s.old :
                    \A k \in DOMAIN table.cols :
                        (/\ table.cols[k] \in DOMAIN s.params
                         /\ table.cols[k] \notin MayChange(e.row)) =>
                            s.params[table.cols[k]] = s.old[m][k]

\* C28: the UPDATE of a modified grid row selects at most one record, the
\* one the row was loaded from, also when the row is keyed by the composite
\* of CustomerID, CustomerPositionNo and EquipmentType.
C28_OnlyTheRowsOwnRecord ==
    op = "save" =>
        \A e \in Entries :
            LET s == e.statements[1] IN
            (~e.is_new /\ s.stmt = "UPDATE" /\ s.ok) =>
                /\ s.rowcount <= 1
                /\ Matching(df, s.where) \subseteq {e.row}

\* The rows of a result set that are of equipment type t.
GroupOf(results, t) ==
    [cols |-> results.cols,
     rows |-> SelectSeq(results.rows,
                LAMBDA row : row[ColIndex(results, EquipmentTypeCol)] = t)]

\* C25: in an advanced search without a selected type whose results are
\* of several types, the table shown for each type is the type's rows
\* labelled with the type's own catalog labels.
C25_GroupsCarryOwnLabels ==
    (op = "advanced" /\ ~Truthy(eq_type)
        /\ Cardinality(TypesIn(df)) > 1) =>
        \A t \in DOMAIN groups :
            groups[t] = ApplyDynamicSpecificationLabels(
                            refSource, catalog, GroupOf(df, t), t).out


\* ------------------------------------------- specification of the cache
\* Seconds a cached mapping stays valid (ttl of the cache decorator).
TTL == 1800

\* Cache lifetimes the clock is followed for.
MaxAge == 2

InitCache ==
    /\ refSource \in {"up", "down"}
    /\ \E v \in {<<"A">>, <<"B">>} :
           catalog = (Baler :> [i \in 1..MaxSlot |-> v])
    /\ NoFetch
    /\ table = EmptyFrame
    /\ df = EmptyFrame
    /\ NoOrder
    /\ NoManager
    /\ NoView

\* A fetch that always runs the query.
FetchUncached(t) ==
    LET r == GetSpecificationLabelsFromDb(refSource, catalog, t) IN
    /\ equipment_type' = t
    /\ spec_labels' = r.value
    /\ raised' = r.raised
    /\ cache' = (t :> [value |-> r.value, expires |-> now + TTL]) @@ cache
    /\ op' = "fetch"
    /\ UNCHANGED <<envVars, orderVars, managerEnv, now, peer, managerVars,
                   table, df, eq_type, out, notices, primary, calls, groups>>

\* A caller fetches the labels of equipment type t through the cache: an
\* entry younger than the TTL is returned as it is; otherwise the query runs
\* and what it returns, the empty mapping of a failed query included,
\* is stored under t.
FetchCached(t) ==
    IF t \in DOMAIN cache /\ now < cache[t].expires
    THEN /\ equipment_type' = t
         /\ spec_labels' = cache[t].value
         /\ raised' = FALSE
         /\ op' = "fetch"
         /\ UNCHANGED <<envVars, orderVars, managerEnv, cacheVars, peer,
                        managerVars, table, df, eq_type, out, notices,
                        primary, calls, groups>>
    ELSE LET r == GetSpecificationLabelsFromDb(refSource, catalog, t) IN
         /\ equipment_type' = t
         /\ spec_labels' = r.value
         /\ raised' = r.raised
         /\ cache' = (t :> [value |-> r.value, expires |-> now + TTL]) @@ cache
         /\ op' = "fetch"
         /\ UNCHANGED <<envVars, orderVars, managerEnv, now, peer,
                        managerVars, table, df, eq_type, out, notices,
                        primary, calls, groups>>

\* The Clear Cache button: every entry is dropped.
ClearCache ==
    /\ cache' = <<>>
    /\ op' = "clear"
    /\ UNCHANGED <<envVars, orderVars, managerEnv, now, peer, managerVars,
                   fetchVars, table, df, eq_type, out, notices, primary,
                   calls, groups>>

\* d seconds pass.
Elapse(d) ==
    /\ now + d <= MaxAge * TTL
    /\ now' = now + d
    /\ op' = "wait"
    /\ UNCHANGED <<envVars, orderVars, managerEnv, cache, peer, managerVars,
                   fetchVars, table, df, eq_type, out, notices, primary,
                   calls, groups>>

\* The reference side changes: the source goes up or down, the catalog row
\* of the type is rewritten.
ReferenceChanges(source, row) ==
    /\ <<source, (Baler :> row)>> # <<refSource, catalog>>
    /\ refSource' = source
    /\ catalog' = (Baler :> row)
    /\ op' = "reference"
    /\ UNCHANGED <<orderVars, managerEnv, cacheVars, peer, managerVars,
                   fetchVars, table, df, eq_type, out, notices, primary,
                   calls, groups>>

NextCache ==
    \/ \E t \in {Baler, Conveyor} : FetchCached(t)
    \/ ClearCache
    \/ \E d \in {TTL \div 2, TTL - 1, TTL} : Elapse(d)
    \/ \E source \in {"up", "down"}, v \in {<<"A">>, <<"B">>} :
           ReferenceChanges(source, [i \in 1..MaxSlot |-> v])

SpecCache == InitCache /\ [][NextCache]_vars

\* --------------------------------------------------- claims on the cache
\* What the query gives for type t as the reference side is now.
Derived(t) == GetSpecificationLabelsFromDb(refSource, catalog, t).value

C29_FailedQueryNotRetained ==
    [][( /\ op' = "fetch"
         /\ equipment_type' = Baler
         /\ refSource = "up"
         /\ Baler \in DOMAIN cache
         /\ cache[Baler].value = EmptyMapping )
           => spec_labels' = Derived(Baler)]_vars


\* ------------------------------------- specification of two sessions
\* Two browser sessions of one user on the manager page, with the same
\* customer, project and equipment type selected; the first record of the
\* table has a serial number.
InitPeer ==
    /\ InitSave
    /\ session = SessionFilled
    /\ table.rows # <<>>

\* The second session renders the page, before any save.
PeerRenderDataGrid ==
    LET existing_df ==
            LoadExistingEquipmentData(table,
                                      session[<<"s","e","l","e","c","t","e","d","_","e","q","u","i","p","m","e","n","t","_","t","y","p","e">>])
    IN
    /\ peer.op = "none"
    /\ clock = 0
    /\ peer' = [peer EXCEPT
                  !.op = "grid",
                  !.original_data_hash =
                      StoreHashes(<<>>, existing_df, Len(existing_df.rows)),
                  !.edited_df = BuildCompleteGrid(refSource, label_view,
                                                  session, existing_df)]
    /\ UNCHANGED <<envVars, orderVars, managerEnv, cacheVars, fetchVars,
                   viewVars, managerVars>>

\* The second session's user types val into the Model cell of row r.
PeerEditCell(r, val) ==
    /\ peer.op = "grid"
    /\ r \in DOMAIN peer.edited_df.rows
    /\ peer.edited_df.rows[r][ModelCol] # val
    /\ peer' = [peer EXCEPT !.op = "edited",
                            !.edited_df.rows[r][ModelCol] = val]
    /\ UNCHANGED <<envVars, orderVars, managerEnv, cacheVars, fetchVars,
                   viewVars, managerVars>>

\* The second session's user presses Save Changes, once the first session
\* has rendered its page.
PeerSaveChanges ==
    /\ peer.op \in {"grid", "edited"}
    /\ op # "none"
    /\ \E r \in { SaveChangesOnly(table, peer.original_data_hash,
                                   peer.edited_df, refSource, label_view,
                                   session, environ, Txt("T", clock + 1),
                                   {}) } :
          /\ table' = r.table
          /\ peer' = [peer EXCEPT !.op = "save",
                                  !.original_data_hash = r.hashes,
                                  !.saved_at = clock + 1,
                                  !.save_log = r.log]
    /\ clock' = clock + 1
    /\ UNCHANGED <<envVars, orderVars, managerEnv, cacheVars, fetchVars,
                   df, eq_type, out, op, notices, primary, calls, groups,
                   edited_df, original_data_hash, success_count, errors,
                   save_log>>

NextPeer ==
    \/ RenderDataGrid /\ clock = 0
    \/ EditCell(1, edited_df.cols[Len(base_columns) + 3], <<"v">>)
    \/ SaveChanges({}, "INSERT") /\ peer.op # "none"
    \/ PeerRenderDataGrid
    \/ PeerEditCell(1, <<"w">>)
    \/ PeerSaveChanges

SpecPeer == InitPeer /\ [][NextPeer]_vars

\* ------------------------------------------- claims on the two sessions
\* The records both sessions' saves updated, each as the only record its
\* statement matched.
UpdatedByBoth ==
    { m \in DOMAIN table.rows :
        /\ \E e \in SavedEntries :
              LET s == e.statements[Len(e.statements)] IN
              s.stmt = "UPDATE" /\ DOMAIN s.old = {m}
        /\ \E i \in DOMAIN peer.save_log :
              LET s == peer.save_log[i].statements[
                           Len(peer.save_log[i].statements)] IN
              /\ peer.save_log[i].saved
              /\ s.stmt = "UPDATE"
              /\ DOMAIN s.old = {m} }

====
